---- MODULE Spec2Model ----
(***************************************************************************)
(* Model of the agora-backend store and of its request handlers.           *)
(*                                                                         *)
(* The store is the SQLite database of src/database/schema.sql.  Every     *)
(* `await db.get/run(...)` of a handler is one store statement; the store  *)
(* executes a statement atomically, and a handler is suspended between two *)
(* statements, so handlers of different requests interleave at statement   *)
(* granularity.  No handler opens a transaction.                           *)
(***************************************************************************)
EXTENDS Integers, Sequences, FiniteSets, TLC

\* Number of castOrUpdateVote requests a behaviour of Spec may hold; all of
\* them may be in flight at once.
MaxCalls == 2

\* Number of castOrUpdateVote requests a behaviour of SeqSpec may hold.
MaxSeqCalls == 4

\* users.id of the authenticated principals (req.user.id).
Users == {1, 2}

\* posts.id / comments.id of the rows present in the initial store.
InitialPostIds == {1}
InitialCommentIds == {1}

ItemTypes == {"post", "comment"}
VoteTypes == {"up", "down"}

\* A request body {itemId, itemType, voteType} with the principal attached.
Request(u, id, t, v) == [user |-> u, itemId |-> id, itemType |-> t, voteType |-> v]

\* Well-formed requests for rows of the initial store.
ValidRequests ==
  {Request(u, id, t, v) : u \in Users, id \in InitialPostIds \cup InitialCommentIds,
                          t \in ItemTypes, v \in VoteTypes}

\* Requests the handler rejects: itemId 0 is falsy (missing), id 2 names no row,
\* "user" is no item type, "sideways" is no vote type.
RejectedRequests ==
  { Request(1, 0, "post", "up"),
    Request(1, 1, "user", "up"),
    Request(1, 1, "post", "sideways"),
    Request(2, 2, "comment", "down") }

Requests == ValidRequests \cup RejectedRequests

VARIABLES
  posts,     \* posts table: id -> value of the votes column
  comments,  \* comments table: id -> value of the votes column
  votes,     \* votes table: set of rows
  voteSeq,   \* AUTOINCREMENT sequence of votes.id (last id handed out)
  calls,     \* the castOrUpdateVote requests received so far, in arrival order
  initial,   \* history: the votes columns of the initial store
  users,     \* users table: id -> [role, is_banned]
  reports,   \* reports table: set of rows
  reportSeq, \* AUTOINCREMENT sequence of reports.id (last id handed out)
  modLogs,   \* moderation_logs table: rows in insertion order
  ops,       \* the report and moderation requests received so far, in arrival order
  content,   \* the other columns of posts and comments: id -> [author_id, post_id]
  seqs,      \* AUTOINCREMENT sequences of posts.id, comments.id and users.id
  reqs,      \* the creation, account and vote-status requests received so far
  timeline,  \* history: the row counts of the stores gone through (kept by StatsSpec only)
  listing,   \* the listing request in progress: its query values and the locals of its handler
  cleanup    \* the run of the cleanup job: the clock, posts.created_at and the job's locals

vars == <<posts, comments, votes, voteSeq, calls, initial,
          users, reports, reportSeq, modLogs, ops, content, seqs, reqs, timeline, listing, cleanup>>

\* What neither the cast-vote handler nor the report and moderation handlers touch
sysVars == <<content, seqs, reqs, timeline, listing, cleanup>>

\* What the cast-vote handler never touches
modVars == <<users, reports, reportSeq, modLogs, ops>>

\* The users table of the initial store: users 1 and 2 registered (role
\* DEFAULT 'user'), user 3 set up as moderator; nobody is banned.
InitialUsers ==
  [u \in {1, 2, 3} |-> [role |-> IF u = 3 THEN "moderator" ELSE "user", is_banned |-> FALSE]]

\* undefined result of db.get on the votes table
NoVote == [id |-> 0, vote_type |-> "none"]
\* undefined result of db.get on posts / comments
NoItem == [found |-> FALSE, votes |-> 0]

----------------------------------------------------------------------------
(* Store statements of routes/votes.js *)

\* Faulty variant of TableName: the table is not chosen by item type.
TableNameAlwaysPosts(itemType) == "posts"

TableName(itemType) == IF itemType = "post" THEN "posts" ELSE "comments"

Table(tableName) == IF tableName = "posts" THEN posts ELSE comments

\* SELECT id FROM <table> WHERE id = ?
ItemExists(tableName, itemId) == itemId \in DOMAIN Table(tableName)

\* rows WHERE user_id = ? AND item_id = ? AND item_type = ?
VotesOf(rows, u, id, t) ==
  {r \in rows : r.user_id = u /\ r.item_id = id /\ r.item_type = t}

\* SELECT id, vote_type FROM votes WHERE user_id = ? AND item_id = ? AND item_type = ?
SelectVote(rows, u, id, t) ==
  IF VotesOf(rows, u, id, t) = {} THEN NoVote
  ELSE LET r == CHOOSE x \in VotesOf(rows, u, id, t) :
                  \A y \in VotesOf(rows, u, id, t) : x.id <= y.id
       IN [id |-> r.id, vote_type |-> r.vote_type]

\* Faulty variant of UniqueViolation: the votes table without its UNIQUE
\* constraint.
NoUniqueConstraint(rows, u, id, t) == FALSE

\* UNIQUE(user_id, item_id, item_type): the INSERT is rejected when it holds.
UniqueViolation(rows, u, id, t) == VotesOf(rows, u, id, t) # {}

\* DELETE FROM votes WHERE id = ?
DeleteVote(rows, voteId) == {r \in rows : r.id # voteId}

\* UPDATE votes SET vote_type = ? WHERE id = ?
UpdateVoteType(rows, voteId, v) ==
  {IF r.id = voteId THEN [r EXCEPT !.vote_type = v] ELSE r : r \in rows}

\* INSERT INTO votes (user_id, item_id, item_type, vote_type)
InsertVote(rows, newId, u, id, t, v) ==
  rows \cup {[id |-> newId, user_id |-> u, item_id |-> id, item_type |-> t,
              vote_type |-> v]}

\* Faulty variants of the voteDelta expressions: a toggle-off that moves the counter the
\* way the removed vote did, a switch counted as a single vote, a switch whose
\* two directions do not cancel, a first vote always counted as Up.
RemovedDeltaSameSign(voteType) == IF voteType = "up" THEN 1 ELSE -1
UpdatedDeltaByOne(voteType) == IF voteType = "up" THEN 1 ELSE -1
UpdatedDeltaAsymmetric(voteType) == IF voteType = "up" THEN 2 ELSE -1
CreatedDeltaAlwaysUp(voteType) == 1

\* voteDelta of the three branches
RemovedDelta(voteType) == IF voteType = "up" THEN -1 ELSE 1
UpdatedDelta(voteType) == IF voteType = "up" THEN 2 ELSE -2
CreatedDelta(voteType) == IF voteType = "up" THEN 1 ELSE -1

\* Faulty variant of UpdateVotes: SET votes = ?, an absolute value instead of a
\* relative delta.
UpdateVotesOverwrite(tbl, itemId, delta) ==
  [x \in DOMAIN tbl |-> IF x = itemId THEN delta ELSE tbl[x]]

\* UPDATE <table> SET votes = votes + ? WHERE id = ?
UpdateVotes(tbl, itemId, delta) ==
  [x \in DOMAIN tbl |-> IF x = itemId THEN tbl[x] + delta ELSE tbl[x]]

\* SELECT votes FROM <table> WHERE id = ?
SelectVotes(tbl, itemId) ==
  IF itemId \in DOMAIN tbl THEN [found |-> TRUE, votes |-> tbl[itemId]] ELSE NoItem

----------------------------------------------------------------------------
(* router.post('/') of routes/votes.js, one action per store statement *)

\* Locals of a handler when the request arrives.  preVote, preVotes and
\* votesBefore are history fields: the caller's vote and the item's counter
\* when the request arrived, and the counter just before the counter UPDATE.
NewCall(req) ==
  [ user |-> req.user, itemId |-> req.itemId, itemType |-> req.itemType,
    voteType |-> req.voteType,
    pc |-> "lookup", status |-> 0,
    existingVote |-> NoVote, voteDelta |-> 0, action |-> "",
    updatedItem |-> NoItem, votes |-> 0, userVote |-> "null",
    preVote |-> "none", preVotes |-> 0, votesBefore |-> 0 ]

Respond(c, code) == [c EXCEPT !.pc = "done", !.status = code]

\* Faulty variant of Validate: the voteType check is missing.
ValidateWithoutVoteType(req) ==
  IF req.itemId = 0 THEN 400
  ELSE IF req.itemType \notin {"post", "comment"} THEN 400
  ELSE 0

\* Request validation of lines 13-23: the status of the rejection, 0 if none.
Validate(req) ==
  IF req.itemId = 0 THEN 400
  ELSE IF req.itemType \notin {"post", "comment"} THEN 400
  ELSE IF req.voteType \notin {"up", "down"} THEN 400
  ELSE 0

\* Arrival of a request: validation, then the existence check of the item.
Arrive(req) ==
  /\ LET c == NewCall(req)
         tableName == TableName(req.itemType)
     IN calls' = Append(calls,
          IF Validate(req) # 0 THEN Respond(c, Validate(req))
          ELSE IF ~ItemExists(tableName, req.itemId) THEN Respond(c, 404)
          ELSE [c EXCEPT
                 !.preVote = SelectVote(votes, req.user, req.itemId, req.itemType).vote_type,
                 !.preVotes = Table(tableName)[req.itemId]])
  /\ UNCHANGED <<posts, comments, votes, voteSeq, initial, modVars, sysVars>>

\* Check if user already voted on this item
Lookup(i) ==
  LET c == calls[i] IN
  /\ c.pc = "lookup"
  /\ calls' = [calls EXCEPT ![i] =
       [c EXCEPT !.pc = "write",
                 !.existingVote = SelectVote(votes, c.user, c.itemId, c.itemType)]]
  /\ UNCHANGED <<posts, comments, votes, voteSeq, initial, modVars, sysVars>>

\* The DELETE, UPDATE or INSERT on the votes table
Write(i) ==
  LET c == calls[i] IN
  /\ c.pc = "write"
  /\ IF c.existingVote # NoVote
     THEN IF c.existingVote.vote_type = c.voteType
          THEN /\ votes' = DeleteVote(votes, c.existingVote.id)
               /\ voteSeq' = voteSeq
               /\ calls' = [calls EXCEPT ![i] =
                    [c EXCEPT !.pc = "count", !.voteDelta = RemovedDelta(c.voteType),
                              !.action = "removed"]]
          ELSE /\ votes' = UpdateVoteType(votes, c.existingVote.id, c.voteType)
               /\ voteSeq' = voteSeq
               /\ calls' = [calls EXCEPT ![i] =
                    [c EXCEPT !.pc = "count", !.voteDelta = UpdatedDelta(c.voteType),
                              !.action = "updated"]]
     ELSE IF UniqueViolation(votes, c.user, c.itemId, c.itemType)
          THEN \* SQLITE_CONSTRAINT rejects the promise: catch block, 500
               /\ votes' = votes
               /\ voteSeq' = voteSeq
               /\ calls' = [calls EXCEPT ![i] = Respond(c, 500)]
          ELSE /\ votes' = InsertVote(votes, voteSeq + 1, c.user, c.itemId, c.itemType,
                                      c.voteType)
               /\ voteSeq' = voteSeq + 1
               /\ calls' = [calls EXCEPT ![i] =
                    [c EXCEPT !.pc = "count", !.voteDelta = CreatedDelta(c.voteType),
                              !.action = "created"]]
  /\ UNCHANGED <<posts, comments, initial, modVars, sysVars>>

\* Update vote count on the item
Count(i) ==
  LET c == calls[i]
      tableName == TableName(c.itemType)
  IN
  /\ c.pc = "count"
  /\ posts' = IF tableName = "posts" THEN UpdateVotes(posts, c.itemId, c.voteDelta)
              ELSE posts
  /\ comments' = IF tableName = "comments" THEN UpdateVotes(comments, c.itemId, c.voteDelta)
                 ELSE comments
  /\ calls' = [calls EXCEPT ![i] =
       [c EXCEPT !.pc = "readVotes",
                 !.votesBefore = SelectVotes(Table(tableName), c.itemId).votes]]
  /\ UNCHANGED <<votes, voteSeq, initial, modVars, sysVars>>

\* Get updated vote count
ReadVotes(i) ==
  LET c == calls[i] IN
  /\ c.pc = "readVotes"
  /\ calls' = [calls EXCEPT ![i] =
       [c EXCEPT !.pc = "readVote",
                 !.updatedItem = SelectVotes(Table(TableName(c.itemType)), c.itemId)]]
  /\ UNCHANGED <<posts, comments, votes, voteSeq, initial, modVars, sysVars>>

\* Get current user vote status, then res.json; reading updatedItem.votes of an
\* undefined updatedItem throws into the catch block.
ReadVote(i) ==
  LET c == calls[i]
      currentVote == SelectVote(votes, c.user, c.itemId, c.itemType)
  IN
  /\ c.pc = "readVote"
  /\ calls' = [calls EXCEPT ![i] =
       IF ~c.updatedItem.found THEN Respond(c, 500)
       ELSE [Respond(c, 200) EXCEPT
              !.votes = c.updatedItem.votes,
              !.userVote = IF currentVote # NoVote THEN currentVote.vote_type ELSE "null"]]
  /\ UNCHANGED <<posts, comments, votes, voteSeq, initial, modVars, sysVars>>

----------------------------------------------------------------------------
\* A vote row as the votes table stores it.
VoteRow(voteId, u, id, t, v) ==
  [id |-> voteId, user_id |-> u, item_id |-> id, item_type |-> t, vote_type |-> v]

\* No listing request is being looked at
NoListing == [pc |-> "none"]

\* The cleanup job is not running
NoCleanup == [pc |-> "none"]

\* The author_id and post_id columns of the initial store: post 2 was written
\* by user 2, every other post and comment by user 1; the comments are on
\* post 1. A deleted row keeps its entry here (ids are never handed out twice);
\* the row exists exactly when its id is in the domain of posts or comments.
InitialContent(postIds, commentIds) ==
  [post |-> [x \in postIds |-> [author_id |-> IF x = 2 THEN 2 ELSE 1]],
   comment |-> [x \in commentIds |-> [author_id |-> 1, post_id |-> 1]]]

\* sqlite_sequence after the initial rows were inserted
InitialSeqs(postIds, commentIds) ==
  [posts |-> Cardinality(postIds), comments |-> Cardinality(commentIds), users |-> 3]

\* The store after the schema and the first post and comment were created:
\* votes DEFAULT 0, no vote rows.
Init ==
  /\ posts = [x \in InitialPostIds |-> 0]
  /\ comments = [x \in InitialCommentIds |-> 0]
  /\ votes = {}
  /\ voteSeq = 0
  /\ calls = <<>>
  /\ initial = [posts |-> posts, comments |-> comments]
  /\ users = InitialUsers
  /\ reports = {}
  /\ reportSeq = 0
  /\ modLogs = <<>>
  /\ ops = <<>>
  /\ content = InitialContent(InitialPostIds, InitialCommentIds)
  /\ seqs = InitialSeqs(InitialPostIds, InitialCommentIds)
  /\ reqs = <<>>
  /\ timeline = <<>>
  /\ listing = NoListing
  /\ cleanup = NoCleanup

\* The store after user 1 voted up on post 1 and user 2 then voted down on
\* comment 1 (SeqSpec reaches it from Init, see SeqReachesWarmStore).
WarmInit ==
  /\ posts = [x \in InitialPostIds |-> 1]
  /\ comments = [x \in InitialCommentIds |-> -1]
  /\ votes = {VoteRow(1, 1, 1, "post", "up"), VoteRow(2, 2, 1, "comment", "down")}
  /\ voteSeq = 2
  /\ calls = <<>>
  /\ initial = [posts |-> posts, comments |-> comments]
  /\ users = InitialUsers
  /\ reports = {}
  /\ reportSeq = 0
  /\ modLogs = <<>>
  /\ ops = <<>>
  /\ content = InitialContent(InitialPostIds, InitialCommentIds)
  /\ seqs = InitialSeqs(InitialPostIds, InitialCommentIds)
  /\ reqs = <<>>
  /\ timeline = <<>>
  /\ listing = NoListing
  /\ cleanup = NoCleanup

\* A request arrives while others are in flight.
Start(req) == Len(calls) < MaxCalls /\ Arrive(req)

\* Requests arrive at any time and their handlers interleave.
Next ==
  \/ \E req \in Requests : Start(req)
  \/ \E i \in 1..Len(calls) : Lookup(i)
  \/ \E i \in 1..Len(calls) : Write(i)
  \/ \E i \in 1..Len(calls) : Count(i)
  \/ \E i \in 1..Len(calls) : ReadVotes(i)
  \/ \E i \in 1..Len(calls) : ReadVote(i)

Spec == (Init \/ WarmInit) /\ [][Next]_vars

\* No request is in flight.
Quiescent == \A i \in 1..Len(calls) : calls[i].pc = "done"

\* One call at a time: a request arrives only when no handler is in flight.
SeqStart(req) == Quiescent /\ Len(calls) < MaxSeqCalls /\ Arrive(req)

SeqNext ==
  \/ \E req \in Requests : SeqStart(req)
  \/ \E i \in 1..Len(calls) : Lookup(i)
  \/ \E i \in 1..Len(calls) : Write(i)
  \/ \E i \in 1..Len(calls) : Count(i)
  \/ \E i \in 1..Len(calls) : ReadVotes(i)
  \/ \E i \in 1..Len(calls) : ReadVote(i)

SeqSpec == Init /\ [][SeqNext]_vars

(***************************************************************************)
(* Reports and moderation (routes/reports.js, routes/moderation.js,        *)
(* middleware/moderation.js, migrations/002_add_moderation.sql).           *)
(*                                                                         *)
(* A request runs as a chain of store statements with an await between     *)
(* them, so requests interleave statement by statement.  The gate          *)
(* (authenticateToken, requireModerator) reads only users.id and           *)
(* users.role, which no request handler writes: it is evaluated together   *)
(* with the handler's first statement.  A username is identified with the  *)
(* id of the user that bears it.                                           *)
(***************************************************************************)

MaxOps == 2                \* report and moderation requests in one behaviour

MaxReasonLength == 500     \* reports.js: reason.length > 500

Moderator == 3
ModPostIds == {1, 2}
ModCommentIds == {1}

\* posts.author_id, comments.author_id
PostAuthor(id) == content.post[id].author_id
CommentAuthor(id) == content.comment[id].author_id

NoTarget == 0              \* target_id NULL of a bulk deletion's log entry

ModKinds ==
  {"deletePost", "bulkDeletePosts", "deleteComment", "bulkDeleteComments",
   "banUser", "unbanUser", "deleteUserContent", "dismissReport"}

\* One request: submitReport carries (itemId = target, itemType, reason),
\* the moderation routes carry :id or :username (target) or an id array (ids)
OpRequest(kind, caller, target, itemType, ids, reasonLen) ==
  [kind |-> kind, caller |-> caller, target |-> target, itemType |-> itemType,
   ids |-> ids, reasonLen |-> reasonLen]

SubmitReq(u, t, id, len) == OpRequest("submitReport", u, id, t, {}, len)
ModReq(kind, u, target) == OpRequest(kind, u, target, "", {}, 0)
BulkReq(kind, u, ids) == OpRequest(kind, u, 0, "", ids, 0)

ReportRequests ==
  {SubmitReq(1, "post", 1, 0), SubmitReq(2, "post", 1, 0), SubmitReq(1, "comment", 1, 0),
   SubmitReq(1, "post", 9, 0), SubmitReq(1, "user", 1, 0), SubmitReq(2, "post", 1, 501)}

ModerationRequests ==
  {ModReq("dismissReport", Moderator, 1), ModReq("dismissReport", Moderator, 2),
   ModReq("dismissReport", Moderator, 9), ModReq("dismissReport", 1, 1),
   ModReq("deletePost", Moderator, 1), ModReq("deletePost", Moderator, 9),
   ModReq("deleteComment", Moderator, 1), ModReq("deleteComment", Moderator, 9),
   BulkReq("bulkDeletePosts", Moderator, {1, 2}), BulkReq("bulkDeletePosts", Moderator, {2, 9}),
   BulkReq("bulkDeletePosts", Moderator, {9}), BulkReq("bulkDeletePosts", Moderator, {}),
   BulkReq("bulkDeleteComments", Moderator, {1, 9}), BulkReq("bulkDeleteComments", Moderator, {9}),
   BulkReq("bulkDeleteComments", Moderator, {}),
   ModReq("banUser", Moderator, 1), ModReq("banUser", Moderator, 9), ModReq("banUser", 1, 2),
   ModReq("unbanUser", Moderator, 1), ModReq("unbanUser", Moderator, 9),
   ModReq("deleteUserContent", Moderator, 1), ModReq("deleteUserContent", Moderator, 9)}

OpRequests == ReportRequests \cup ModerationRequests

\* ---- the reports table ----

ReportRow(id, reporter, itemId, itemType, status) ==
  [id |-> id, reporter_id |-> reporter, reported_item_id |-> itemId,
   reported_item_type |-> itemType, status |-> status]

\* SELECT id FROM reports WHERE reporter_id = ? AND reported_item_id = ?
\*   AND reported_item_type = ?
SelectReports(reporter, itemId, itemType) ==
  {r \in reports : /\ r.reporter_id = reporter
                   /\ r.reported_item_id = itemId
                   /\ r.reported_item_type = itemType}

\* SELECT * FROM reports WHERE id = ?
ReportById(id) == {r \in reports : r.id = id}

\* Faulty variant of ReportUniqueViolation: the table has no UNIQUE constraint
NoReportUniqueConstraint(reporter, itemId, itemType) == FALSE

\* UNIQUE(reporter_id, reported_item_id, reported_item_type)
ReportUniqueViolation(reporter, itemId, itemType) ==
  SelectReports(reporter, itemId, itemType) # {}

\* ---- the moderation_logs table ----

LogRow(id, moderator, action, targetType, targetId) ==
  [id |-> id, moderator_id |-> moderator, action |-> action,
   target_type |-> targetType, target_id |-> targetId]

\* ---- one request in progress ----

NewOp(req) ==
  [kind |-> req.kind, caller |-> req.caller, target |-> req.target,
   itemType |-> req.itemType, ids |-> req.ids, reasonLen |-> req.reasonLen,
   pc |-> "start", status |-> 0,
   found |-> {},           \* ids returned by the handler's SELECT
   postCount |-> 0, commentCount |-> 0,
   mutated |-> FALSE,      \* history: the handler's mutation was carried out
   logId |-> 0,            \* history: id of the moderation_logs row it inserted
   logFailed |-> FALSE,    \* history: its INSERT INTO moderation_logs threw
   targetBanned |-> FALSE, \* history: the user named by the request was banned on arrival
   callerBanned |-> FALSE, \* history: the caller was banned on arrival
   stats |-> <<>>,         \* the counts the stats queries have returned so far
   since |-> 0,            \* history: length of timeline on arrival
   hadItem |-> FALSE,      \* history: the reported item existed on arrival
   hadReport |-> FALSE]    \* history: the caller's report of it existed on arrival

OpRespond(o, code) == [o EXCEPT !.pc = "done", !.status = code]

OpAt(o, pc) == [o EXCEPT !.pc = pc]

\* ---- the gate: authenticateToken, then requireModerator ----

\* Faulty variant of Gate: every authenticated caller passes
GateAuthenticatedOnly(o) ==
  IF o.caller \notin DOMAIN users THEN 401 ELSE 0

\* Faulty variant of Gate: the role is the one the account had when the
\* credential was issued
GateRoleFromCredential(o) ==
  IF o.caller \notin DOMAIN users THEN 401
  ELSE IF o.caller \in DOMAIN InitialUsers
          /\ InitialUsers[o.caller].role \notin {"moderator", "admin"} THEN 403
  ELSE 0

\* 0 when the request passes; the user row is read afresh on every request
Gate(o) ==
  IF o.caller \notin DOMAIN users THEN 401
  ELSE IF users[o.caller].role \notin {"moderator", "admin"} THEN 403
  ELSE 0

\* ---- each handler up to and including its first SELECT ----

\* Faulty variant of SubmitReportSelectItem: the item is not looked up
SubmitReportWithoutItemCheck(o) ==
  IF o.target = 0 \/ o.itemType = "" THEN OpRespond(o, 400)
  ELSE IF o.itemType \notin {"post", "comment"} THEN OpRespond(o, 400)
  ELSE IF o.reasonLen > MaxReasonLength THEN OpRespond(o, 400)
  ELSE OpAt(o, "check")

\* POST /api/reports: validation, then SELECT id FROM <table> WHERE id = ?
\* Faulty variant of SubmitReportSelectItem: a banned caller is refused
SubmitReportBanChecked(o) ==
  IF o.caller \in DOMAIN users /\ users[o.caller].is_banned THEN OpRespond(o, 403)
  ELSE IF o.target = 0 \/ o.itemType = "" THEN OpRespond(o, 400)
  ELSE IF o.itemType \notin {"post", "comment"} THEN OpRespond(o, 400)
  ELSE IF o.reasonLen > MaxReasonLength THEN OpRespond(o, 400)
  ELSE IF o.target \notin DOMAIN (IF o.itemType = "post" THEN posts ELSE comments)
       THEN OpRespond(o, 404)
  ELSE OpAt(o, "check")

SubmitReportSelectItem(o) ==
  IF o.target = 0 \/ o.itemType = "" THEN OpRespond(o, 400)
  ELSE IF o.itemType \notin {"post", "comment"} THEN OpRespond(o, 400)
  ELSE IF o.reasonLen > MaxReasonLength THEN OpRespond(o, 400)
  ELSE IF o.target \notin DOMAIN (IF o.itemType = "post" THEN posts ELSE comments)
       THEN OpRespond(o, 404)
  ELSE OpAt(o, "check")

DeletePostSelect(o) ==
  IF o.target \notin DOMAIN posts THEN OpRespond(o, 404)
  ELSE [OpAt(o, "mutate") EXCEPT !.found = {o.target}]

\* Faulty variant of DeleteCommentSelect: the row is not looked up
DeleteCommentSelectWithoutCheck(o) == [OpAt(o, "mutate") EXCEPT !.found = {o.target}]

DeleteCommentSelect(o) ==
  IF o.target \notin DOMAIN comments THEN OpRespond(o, 404)
  ELSE [OpAt(o, "mutate") EXCEPT !.found = {o.target}]

\* Faulty variant of BulkDeletePostsSelect: the requested ids are counted
BulkDeletePostsSelectRequested(o) ==
  IF o.ids = {} THEN OpRespond(o, 400)
  ELSE IF o.ids \cap DOMAIN posts = {} THEN OpRespond(o, 404)
  ELSE [OpAt(o, "mutate") EXCEPT !.found = o.ids]

BulkDeletePostsSelect(o) ==
  IF o.ids = {} THEN OpRespond(o, 400)
  ELSE IF o.ids \cap DOMAIN posts = {} THEN OpRespond(o, 404)
  ELSE [OpAt(o, "mutate") EXCEPT !.found = o.ids \cap DOMAIN posts]

BulkDeleteCommentsSelect(o) ==
  IF o.ids = {} THEN OpRespond(o, 400)
  ELSE IF o.ids \cap DOMAIN comments = {} THEN OpRespond(o, 404)
  ELSE [OpAt(o, "mutate") EXCEPT !.found = o.ids \cap DOMAIN comments]

\* Faulty variant of BanUserSelect: an already banned user is banned again
BanUserSelectWithoutConflict(o) ==
  IF o.target \notin DOMAIN users THEN OpRespond(o, 404)
  ELSE [OpAt(o, "mutate") EXCEPT !.found = {o.target}]

BanUserSelect(o) ==
  IF o.target \notin DOMAIN users THEN OpRespond(o, 404)
  ELSE IF users[o.target].is_banned THEN OpRespond(o, 400)
  ELSE [OpAt(o, "mutate") EXCEPT !.found = {o.target}]

UnbanUserSelect(o) ==
  IF o.target \notin DOMAIN users THEN OpRespond(o, 404)
  ELSE IF ~users[o.target].is_banned THEN OpRespond(o, 400)
  ELSE [OpAt(o, "mutate") EXCEPT !.found = {o.target}]

DeleteUserContentSelect(o) ==
  IF o.target \notin DOMAIN users THEN OpRespond(o, 404)
  ELSE [OpAt(o, "countPosts") EXCEPT !.found = {o.target}]

\* Faulty variant of DismissReportSelect: only a pending report may be dismissed
DismissReportSelectPendingOnly(o) ==
  IF ReportById(o.target) = {} THEN OpRespond(o, 404)
  ELSE IF \E r \in ReportById(o.target) : r.status # "pending" THEN OpRespond(o, 400)
  ELSE [OpAt(o, "mutate") EXCEPT !.found = {o.target}]

DismissReportSelect(o) ==
  IF ReportById(o.target) = {} THEN OpRespond(o, 404)
  ELSE [OpAt(o, "mutate") EXCEPT !.found = {o.target}]

\* ---- the read-only moderation routes ----

\* GET /stats, /posts, /comments, /users, /users/:username, /reports
ReadKinds == {"getStats", "listPosts", "listComments", "listUsers", "getUser", "listReports"}

\* The route's first query. /users/:username answers 404 when the SELECT by
\* username returns nothing and goes on to read the user's posts and comments;
\* /stats has handed its six queries to the database; the listing routes
\* have issued their one query.
ReadSelect(o) ==
  IF o.kind = "getUser"
  THEN IF o.target \notin DOMAIN users THEN OpRespond(o, 404) ELSE OpAt(o, "content")
  ELSE IF o.kind = "getStats" THEN OpAt(o, "stats")
  ELSE OpAt(o, "respond")

FirstStatement(o) ==
  IF o.kind = "submitReport" THEN
    IF o.caller \notin DOMAIN users THEN OpRespond(o, 401) ELSE SubmitReportSelectItem(o)
  ELSE IF Gate(o) # 0 THEN OpRespond(o, Gate(o))
  ELSE CASE o.kind = "deletePost"         -> DeletePostSelect(o)
         [] o.kind = "deleteComment"      -> DeleteCommentSelect(o)
         [] o.kind = "bulkDeletePosts"    -> BulkDeletePostsSelect(o)
         [] o.kind = "bulkDeleteComments" -> BulkDeleteCommentsSelect(o)
         [] o.kind = "banUser"            -> BanUserSelect(o)
         [] o.kind = "unbanUser"          -> UnbanUserSelect(o)
         [] o.kind = "deleteUserContent"  -> DeleteUserContentSelect(o)
         [] o.kind = "dismissReport"      -> DismissReportSelect(o)
         [] o.kind \in ReadKinds           -> ReadSelect(o)

voteVars == <<votes, voteSeq, calls, initial>>

\* A request arrives and runs to the await of its first handler statement
ModArrive(req) ==
  /\ ops' = Append(ops, FirstStatement(
       [NewOp(req) EXCEPT
          !.targetBanned = req.target \in DOMAIN users /\ users[req.target].is_banned,
          !.callerBanned = req.caller \in DOMAIN users /\ users[req.caller].is_banned,
          !.since = Len(timeline),
          !.hadItem = \/ req.itemType = "post" /\ req.target \in DOMAIN posts
                      \/ req.itemType = "comment" /\ req.target \in DOMAIN comments,
          !.hadReport = \E r \in reports : /\ r.reporter_id = req.caller
                                           /\ r.reported_item_id = req.target
                                           /\ r.reported_item_type = req.itemType]))
  /\ UNCHANGED <<posts, comments, users, reports, reportSeq, modLogs, voteVars, sysVars>>

At(i, kind, pc) == ops[i].kind = kind /\ ops[i].pc = pc

\* ---- the read-only routes, continued ----

\* /users/:username: the SELECTs of the user's latest posts and comments
GetUserSelectContent(i) ==
  /\ At(i, "getUser", "content")
  /\ ops' = [ops EXCEPT ![i] = OpAt(@, "respond")]
  /\ UNCHANGED <<posts, comments, users, reports, reportSeq, modLogs, voteVars, sysVars>>

\* The result of the k-th query of /stats on the current store
StatsCount(k) ==
  CASE k = 1 -> Cardinality(DOMAIN posts)
    [] k = 2 -> Cardinality(DOMAIN comments)
    [] k = 3 -> Cardinality({r.reported_item_id : r \in
                   {q \in reports : q.reported_item_type = "post" /\ q.status = "pending"}})
    [] k = 4 -> Cardinality({r.reported_item_id : r \in
                   {q \in reports : q.reported_item_type = "comment" /\ q.status = "pending"}})
    [] k = 5 -> Cardinality(DOMAIN users)
    [] k = 6 -> Cardinality({u \in DOMAIN users : users[u].is_banned})

\* Number of queries of /stats
StatsQueries == 6

\* /stats: the next of the six COUNT queries of the Promise.all runs (they
\* run in the order they were handed to the database); after the last one
\* the handler resumes
GetStatsQuery(i) ==
  /\ At(i, "getStats", "stats")
  /\ LET o == ops[i]
         read == Append(o.stats, StatsCount(Len(o.stats) + 1))
     IN ops' = [ops EXCEPT ![i] =
          [o EXCEPT !.stats = read,
                    !.pc = IF Len(read) = StatsQueries THEN "respond" ELSE "stats"]]
  /\ UNCHANGED <<posts, comments, users, reports, reportSeq, modLogs, voteVars, sysVars>>

\* res.json(...) of a read-only route
ReadRespond(i) ==
  /\ ops[i].kind \in ReadKinds
  /\ ops[i].pc = "respond"
  /\ ops' = [ops EXCEPT ![i] = OpRespond(@, 200)]
  /\ UNCHANGED <<posts, comments, users, reports, reportSeq, modLogs, voteVars, sysVars>>

\* ---- submitReport, continued ----

\* SELECT id FROM reports WHERE reporter_id = ? AND ... ; 409 if a row comes back
SubmitReportCheck(i) ==
  /\ At(i, "submitReport", "check")
  /\ ops' = [ops EXCEPT ![i] =
       IF SelectReports(ops[i].caller, ops[i].target, ops[i].itemType) # {}
         THEN OpRespond(ops[i], 409)
         ELSE OpAt(ops[i], "insert")]
  /\ UNCHANGED <<posts, comments, users, reports, reportSeq, modLogs, voteVars, sysVars>>

\* INSERT INTO reports (...): status takes its DEFAULT 'pending'; a UNIQUE
\* violation throws into the catch block (500)
SubmitReportInsert(i) ==
  /\ At(i, "submitReport", "insert")
  /\ IF ReportUniqueViolation(ops[i].caller, ops[i].target, ops[i].itemType)
       THEN /\ ops' = [ops EXCEPT ![i] = OpRespond(ops[i], 500)]
            /\ UNCHANGED <<reports, reportSeq>>
       ELSE /\ reports' = reports \cup
                 {ReportRow(reportSeq + 1, ops[i].caller, ops[i].target,
                            ops[i].itemType, "pending")}
            /\ reportSeq' = reportSeq + 1
            /\ ops' = [ops EXCEPT ![i] = [OpRespond(ops[i], 201) EXCEPT !.mutated = TRUE]]
  /\ UNCHANGED <<posts, comments, users, modLogs, voteVars, sysVars>>

\* ---- the moderation handlers, continued ----

\* The mutation went through: on to logModerationAction
Mutated(o) == [OpAt(o, "log") EXCEPT !.mutated = TRUE]

\* Faulty variant of Failed: the failure is ignored and the action is logged
FailedButLogged(o) == OpAt(o, "log")

\* A statement of the handler threw: the catch block answers 500
Failed(o) == OpRespond(o, 500)

\* DELETE FROM <table> WHERE id IN ids (foreign keys are not enforced: no
\* PRAGMA foreign_keys, so nothing cascades)
Without(table, ids) == [id \in DOMAIN table \ ids |-> table[id]]

\* Faulty variant of DeletePostDelete: the reports of the post go with it
DeletePostDeleteWithReports(i) ==
  /\ At(i, "deletePost", "mutate")
  /\ posts' = Without(posts, {ops[i].target})
  /\ reports' = {r \in reports : ~(/\ r.reported_item_type = "post"
                                    /\ r.reported_item_id = ops[i].target)}
  /\ ops' = [ops EXCEPT ![i] = Mutated(ops[i])]
  /\ UNCHANGED <<comments, users, reportSeq, modLogs, voteVars, sysVars>>

\* DELETE FROM posts WHERE id = ?
DeletePostDelete(i) ==
  /\ At(i, "deletePost", "mutate")
  /\ \E ok \in BOOLEAN :
       IF ok THEN /\ posts' = Without(posts, {ops[i].target})
                  /\ ops' = [ops EXCEPT ![i] = Mutated(ops[i])]
             ELSE /\ posts' = posts
                  /\ ops' = [ops EXCEPT ![i] = Failed(ops[i])]
  /\ UNCHANGED <<comments, users, reports, reportSeq, modLogs, voteVars, sysVars>>

\* DELETE FROM comments WHERE id = ?
DeleteCommentDelete(i) ==
  /\ At(i, "deleteComment", "mutate")
  /\ \E ok \in BOOLEAN :
       IF ok THEN /\ comments' = Without(comments, {ops[i].target})
                  /\ ops' = [ops EXCEPT ![i] = Mutated(ops[i])]
             ELSE /\ comments' = comments
                  /\ ops' = [ops EXCEPT ![i] = Failed(ops[i])]
  /\ UNCHANGED <<posts, users, reports, reportSeq, modLogs, voteVars, sysVars>>

\* DELETE FROM posts WHERE id IN (postIds)
BulkDeletePostsDelete(i) ==
  /\ At(i, "bulkDeletePosts", "mutate")
  /\ \E ok \in BOOLEAN :
       IF ok THEN /\ posts' = Without(posts, ops[i].ids)
                  /\ ops' = [ops EXCEPT ![i] = Mutated(ops[i])]
             ELSE /\ posts' = posts
                  /\ ops' = [ops EXCEPT ![i] = Failed(ops[i])]
  /\ UNCHANGED <<comments, users, reports, reportSeq, modLogs, voteVars, sysVars>>

\* DELETE FROM comments WHERE id IN (commentIds)
BulkDeleteCommentsDelete(i) ==
  /\ At(i, "bulkDeleteComments", "mutate")
  /\ \E ok \in BOOLEAN :
       IF ok THEN /\ comments' = Without(comments, ops[i].ids)
                  /\ ops' = [ops EXCEPT ![i] = Mutated(ops[i])]
             ELSE /\ comments' = comments
                  /\ ops' = [ops EXCEPT ![i] = Failed(ops[i])]
  /\ UNCHANGED <<posts, users, reports, reportSeq, modLogs, voteVars, sysVars>>

\* UPDATE users SET is_banned = 1 WHERE id = ?
BanUserUpdate(i) ==
  /\ At(i, "banUser", "mutate")
  /\ \E ok \in BOOLEAN :
       IF ok THEN /\ users' = [users EXCEPT ![ops[i].target].is_banned = TRUE]
                  /\ ops' = [ops EXCEPT ![i] = Mutated(ops[i])]
             ELSE /\ users' = users
                  /\ ops' = [ops EXCEPT ![i] = Failed(ops[i])]
  /\ UNCHANGED <<posts, comments, reports, reportSeq, modLogs, voteVars, sysVars>>

\* UPDATE users SET is_banned = 0 WHERE id = ?
UnbanUserUpdate(i) ==
  /\ At(i, "unbanUser", "mutate")
  /\ \E ok \in BOOLEAN :
       IF ok THEN /\ users' = [users EXCEPT ![ops[i].target].is_banned = FALSE]
                  /\ ops' = [ops EXCEPT ![i] = Mutated(ops[i])]
             ELSE /\ users' = users
                  /\ ops' = [ops EXCEPT ![i] = Failed(ops[i])]
  /\ UNCHANGED <<posts, comments, reports, reportSeq, modLogs, voteVars, sysVars>>

\* Faulty variant of DeleteUserContentCountPosts: the COUNT has no WHERE clause
DeleteUserContentCountAllPosts(i) ==
  /\ At(i, "deleteUserContent", "countPosts")
  /\ ops' = [ops EXCEPT ![i] = [OpAt(ops[i], "countComments") EXCEPT !.postCount =
       Cardinality(DOMAIN posts)]]
  /\ UNCHANGED <<posts, comments, users, reports, reportSeq, modLogs, voteVars, sysVars>>

\* SELECT COUNT(*) FROM posts WHERE author_id = ?
DeleteUserContentCountPosts(i) ==
  /\ At(i, "deleteUserContent", "countPosts")
  /\ ops' = [ops EXCEPT ![i] = [OpAt(ops[i], "countComments") EXCEPT !.postCount =
       Cardinality({p \in DOMAIN posts : PostAuthor(p) = ops[i].target})]]
  /\ UNCHANGED <<posts, comments, users, reports, reportSeq, modLogs, voteVars, sysVars>>

\* SELECT COUNT(*) FROM comments WHERE author_id = ?
DeleteUserContentCountComments(i) ==
  /\ At(i, "deleteUserContent", "countComments")
  /\ ops' = [ops EXCEPT ![i] = [OpAt(ops[i], "deletePosts") EXCEPT !.commentCount =
       Cardinality({c \in DOMAIN comments : CommentAuthor(c) = ops[i].target})]]
  /\ UNCHANGED <<posts, comments, users, reports, reportSeq, modLogs, voteVars, sysVars>>

\* DELETE FROM posts WHERE author_id = ?
DeleteUserContentDeletePosts(i) ==
  /\ At(i, "deleteUserContent", "deletePosts")
  /\ \E ok \in BOOLEAN :
       IF ok THEN /\ posts' = Without(posts, {p \in DOMAIN posts : PostAuthor(p) = ops[i].target})
                  /\ ops' = [ops EXCEPT ![i] = OpAt(ops[i], "deleteComments")]
             ELSE /\ posts' = posts
                  /\ ops' = [ops EXCEPT ![i] = Failed(ops[i])]
  /\ UNCHANGED <<comments, users, reports, reportSeq, modLogs, voteVars, sysVars>>

\* DELETE FROM comments WHERE author_id = ?
DeleteUserContentDeleteComments(i) ==
  /\ At(i, "deleteUserContent", "deleteComments")
  /\ \E ok \in BOOLEAN :
       IF ok THEN /\ comments' = Without(comments,
                       {c \in DOMAIN comments : CommentAuthor(c) = ops[i].target})
                  /\ ops' = [ops EXCEPT ![i] = Mutated(ops[i])]
             ELSE /\ comments' = comments
                  /\ ops' = [ops EXCEPT ![i] = Failed(ops[i])]
  /\ UNCHANGED <<posts, users, reports, reportSeq, modLogs, voteVars, sysVars>>

\* Faulty variant of SetDismissed: the UPDATE has no WHERE clause
SetDismissedAll(id) == {[r EXCEPT !.status = "dismissed"] : r \in reports}

\* Faulty variant of SetDismissed: a dismissed report is reopened
SetDismissedOrReopened(id) ==
  {IF r.id = id
     THEN [r EXCEPT !.status = IF r.status = "dismissed" THEN "pending" ELSE "dismissed"]
     ELSE r : r \in reports}

\* UPDATE reports SET status = 'dismissed' WHERE id = ?  (whatever the status)
SetDismissed(id) ==
  {IF r.id = id THEN [r EXCEPT !.status = "dismissed"] ELSE r : r \in reports}

DismissReportUpdate(i) ==
  /\ At(i, "dismissReport", "mutate")
  /\ \E ok \in BOOLEAN :
       IF ok THEN /\ reports' = SetDismissed(ops[i].target)
                  /\ ops' = [ops EXCEPT ![i] = Mutated(ops[i])]
             ELSE /\ reports' = reports
                  /\ ops' = [ops EXCEPT ![i] = Failed(ops[i])]
  /\ UNCHANGED <<posts, comments, users, reportSeq, modLogs, voteVars, sysVars>>

\* ---- logModerationAction(moderatorId, action, targetType, targetId) ----

LogAction(kind) ==
  CASE kind = "deletePost"         -> "delete_post"
    [] kind = "bulkDeletePosts"    -> "bulk_delete_posts"
    [] kind = "deleteComment"      -> "delete_comment"
    [] kind = "bulkDeleteComments" -> "bulk_delete_comments"
    [] kind = "banUser"            -> "ban_user"
    [] kind = "unbanUser"          -> "unban_user"
    [] kind = "deleteUserContent"  -> "delete_user_content"
    [] kind = "dismissReport"      -> "dismiss_report"

LogTargetType(kind) ==
  CASE kind \in {"deletePost", "bulkDeletePosts"}       -> "post"
    [] kind \in {"deleteComment", "bulkDeleteComments"} -> "comment"
    [] kind \in {"banUser", "unbanUser", "deleteUserContent"} -> "user"
    [] kind = "dismissReport"                           -> "report"

LogTargetId(o) ==
  IF o.kind \in {"bulkDeletePosts", "bulkDeleteComments"} THEN NoTarget ELSE o.target

\* Faulty variant of LogModerationAction: a failed insert is thrown on to the
\* handler, whose catch block answers 500
LogModerationActionThrowing(i) ==
  /\ ops[i].kind \in ModKinds
  /\ ops[i].pc = "log"
  /\ \E ok \in BOOLEAN :
       IF ok THEN /\ modLogs' = Append(modLogs,
                       LogRow(Len(modLogs) + 1, ops[i].caller, LogAction(ops[i].kind),
                              LogTargetType(ops[i].kind), LogTargetId(ops[i])))
                  /\ ops' = [ops EXCEPT ![i] =
                       [OpRespond(ops[i], 200) EXCEPT !.logId = Len(modLogs) + 1]]
             ELSE /\ modLogs' = modLogs
                  /\ ops' = [ops EXCEPT ![i] =
                       [OpRespond(ops[i], 500) EXCEPT !.logFailed = TRUE]]
  /\ UNCHANGED <<posts, comments, users, reports, reportSeq, voteVars, sysVars>>

\* Faulty variant of LogModerationAction: the entry replaces an earlier entry
\* with the same action and target
LogModerationActionReplacing(i) ==
  /\ ops[i].kind \in ModKinds
  /\ ops[i].pc = "log"
  /\ modLogs' = Append(
       SelectSeq(modLogs, LAMBDA e : ~(/\ e.action = LogAction(ops[i].kind)
                                       /\ e.target_id = LogTargetId(ops[i]))),
       LogRow(Len(modLogs) + 1, ops[i].caller, LogAction(ops[i].kind),
              LogTargetType(ops[i].kind), LogTargetId(ops[i])))
  /\ ops' = [ops EXCEPT ![i] = [OpRespond(ops[i], 200) EXCEPT !.logId = Len(modLogs')]]
  /\ UNCHANGED <<posts, comments, users, reports, reportSeq, voteVars, sysVars>>

\* INSERT INTO moderation_logs inside try/catch: a failed insert is swallowed.
\* The handler then answers 200.
LogModerationAction(i) ==
  /\ ops[i].kind \in ModKinds
  /\ ops[i].pc = "log"
  /\ \E ok \in BOOLEAN :
       IF ok THEN /\ modLogs' = Append(modLogs,
                       LogRow(Len(modLogs) + 1, ops[i].caller, LogAction(ops[i].kind),
                              LogTargetType(ops[i].kind), LogTargetId(ops[i])))
                  /\ ops' = [ops EXCEPT ![i] =
                       [OpRespond(ops[i], 200) EXCEPT !.logId = Len(modLogs) + 1]]
             ELSE /\ modLogs' = modLogs
                  /\ ops' = [ops EXCEPT ![i] =
                       [OpRespond(ops[i], 200) EXCEPT !.logFailed = TRUE]]
  /\ UNCHANGED <<posts, comments, users, reports, reportSeq, voteVars, sysVars>>

\* ---- the specification of the report and moderation routes ----

\* Two posts and a comment that carry votes; no report yet, empty audit log
ModInit ==
  /\ posts = [id \in ModPostIds |-> IF id = 1 THEN 1 ELSE 0]
  /\ comments = [id \in ModCommentIds |-> -1]
  /\ votes = {VoteRow(1, 1, 1, "post", "up"), VoteRow(2, 2, 1, "comment", "down")}
  /\ voteSeq = 2
  /\ calls = <<>>
  /\ initial = [posts |-> posts, comments |-> comments]
  /\ users = InitialUsers
  /\ reports = {}
  /\ reportSeq = 0
  /\ modLogs = <<>>
  /\ ops = <<>>
  /\ content = InitialContent(ModPostIds, ModCommentIds)
  /\ seqs = InitialSeqs(ModPostIds, ModCommentIds)
  /\ reqs = <<>>
  /\ timeline = <<>>
  /\ listing = NoListing
  /\ cleanup = NoCleanup

\* The same store later on: user 2's report of post 1 was dismissed by the
\* moderator, user 1's report of comment 1 is pending
ModWarmInit ==
  /\ posts = [id \in ModPostIds |-> IF id = 1 THEN 1 ELSE 0]
  /\ comments = [id \in ModCommentIds |-> -1]
  /\ votes = {VoteRow(1, 1, 1, "post", "up"), VoteRow(2, 2, 1, "comment", "down")}
  /\ voteSeq = 2
  /\ calls = <<>>
  /\ initial = [posts |-> posts, comments |-> comments]
  /\ users = InitialUsers
  /\ reports = {ReportRow(1, 2, 1, "post", "dismissed"), ReportRow(2, 1, 1, "comment", "pending")}
  /\ reportSeq = 2
  /\ modLogs = <<LogRow(1, Moderator, "dismiss_report", "report", 1)>>
  /\ ops = <<>>
  /\ content = InitialContent(ModPostIds, ModCommentIds)
  /\ seqs = InitialSeqs(ModPostIds, ModCommentIds)
  /\ reqs = <<>>
  /\ timeline = <<>>
  /\ listing = NoListing
  /\ cleanup = NoCleanup

ModStart(req) == Len(ops) < MaxOps /\ ModArrive(req)

ModNext ==
  \/ \E req \in OpRequests : ModStart(req)
  \/ \E i \in 1..Len(ops) : SubmitReportCheck(i)
  \/ \E i \in 1..Len(ops) : SubmitReportInsert(i)
  \/ \E i \in 1..Len(ops) : DeletePostDelete(i)
  \/ \E i \in 1..Len(ops) : DeleteCommentDelete(i)
  \/ \E i \in 1..Len(ops) : BulkDeletePostsDelete(i)
  \/ \E i \in 1..Len(ops) : BulkDeleteCommentsDelete(i)
  \/ \E i \in 1..Len(ops) : BanUserUpdate(i)
  \/ \E i \in 1..Len(ops) : UnbanUserUpdate(i)
  \/ \E i \in 1..Len(ops) : DeleteUserContentCountPosts(i)
  \/ \E i \in 1..Len(ops) : DeleteUserContentCountComments(i)
  \/ \E i \in 1..Len(ops) : DeleteUserContentDeletePosts(i)
  \/ \E i \in 1..Len(ops) : DeleteUserContentDeleteComments(i)
  \/ \E i \in 1..Len(ops) : DismissReportUpdate(i)
  \/ \E i \in 1..Len(ops) : LogModerationAction(i)

ModSpec == (ModInit \/ ModWarmInit) /\ [][ModNext]_vars

\* The same requests served one at a time
MaxSeqOps == 2

ModQuiescent == \A i \in 1..Len(ops) : ops[i].pc = "done"

ModSeqStart(req) == Len(ops) < MaxSeqOps /\ ModQuiescent /\ ModArrive(req)

ModSeqNext ==
  \/ \E req \in OpRequests : ModSeqStart(req)
  \/ \E i \in 1..Len(ops) : SubmitReportCheck(i)
  \/ \E i \in 1..Len(ops) : SubmitReportInsert(i)
  \/ \E i \in 1..Len(ops) : DeletePostDelete(i)
  \/ \E i \in 1..Len(ops) : DeleteCommentDelete(i)
  \/ \E i \in 1..Len(ops) : BulkDeletePostsDelete(i)
  \/ \E i \in 1..Len(ops) : BulkDeleteCommentsDelete(i)
  \/ \E i \in 1..Len(ops) : BanUserUpdate(i)
  \/ \E i \in 1..Len(ops) : UnbanUserUpdate(i)
  \/ \E i \in 1..Len(ops) : DeleteUserContentCountPosts(i)
  \/ \E i \in 1..Len(ops) : DeleteUserContentCountComments(i)
  \/ \E i \in 1..Len(ops) : DeleteUserContentDeletePosts(i)
  \/ \E i \in 1..Len(ops) : DeleteUserContentDeleteComments(i)
  \/ \E i \in 1..Len(ops) : DismissReportUpdate(i)
  \/ \E i \in 1..Len(ops) : LogModerationAction(i)

ModSeqSpec == (ModInit \/ ModWarmInit) /\ [][ModSeqNext]_vars

\* ---------------------------------------------------------------------------
\* The rest of the API: post and comment creation, register and login, the
\* vote-status query (usernames are identified with user ids)
\* ---------------------------------------------------------------------------

\* One request: target is the postId of a comment or the username of an
\* account request or the item of a status query; reply is replyToId
\* (0: absent); valid says whether the body passes the handler's validation
ApiRequest(kind, caller, target, reply, valid, passwordOk, items) ==
  [kind |-> kind, caller |-> caller, target |-> target, reply |-> reply,
   valid |-> valid, passwordOk |-> passwordOk, items |-> items]

\* One entry of the items array of a status query: id 0 is a missing id
ItemRef(id, type) == [id |-> id, type |-> type]

CreatePostReq(u, valid) == ApiRequest("createPost", u, 0, 0, valid, FALSE, {})
CreateCommentReq(u, postId, reply, valid) ==
  ApiRequest("createComment", u, postId, reply, valid, FALSE, {})
RegisterReq(name, valid) == ApiRequest("register", 0, name, 0, valid, FALSE, {})
LoginReq(name, valid, passwordOk) == ApiRequest("login", 0, name, 0, valid, passwordOk, {})
\* valid: items is an array; items: its entries
StatusReq(u, valid, items) == ApiRequest("getVoteStatus", u, 0, 0, valid, FALSE, items)

\* Username 4 is free in the initial store, username 9 is never registered
ApiRequests ==
  {CreatePostReq(1, TRUE), CreatePostReq(2, TRUE), CreatePostReq(1, FALSE),
   CreateCommentReq(1, 1, 0, TRUE), CreateCommentReq(2, 1, 1, TRUE),
   CreateCommentReq(1, 2, 1, TRUE), CreateCommentReq(1, 9, 0, TRUE),
   CreateCommentReq(1, 1, 0, FALSE),
   RegisterReq(4, TRUE), RegisterReq(1, TRUE), RegisterReq(4, FALSE),
   LoginReq(1, TRUE, TRUE), LoginReq(1, TRUE, FALSE), LoginReq(9, TRUE, TRUE),
   LoginReq(1, FALSE, TRUE),
   StatusReq(1, TRUE, {ItemRef(1, "post"), ItemRef(1, "comment"), ItemRef(0, "post"),
                       ItemRef(1, "user"), ItemRef(9, "post")}),
   StatusReq(2, TRUE, {ItemRef(1, "post"), ItemRef(1, "comment"), ItemRef(2, "post")}),
   StatusReq(1, TRUE, {ItemRef(1, "user"), ItemRef(0, "comment")}),
   StatusReq(1, TRUE, {}), StatusReq(1, FALSE, {})}

NewReq(req) ==
  [kind |-> req.kind, caller |-> req.caller, target |-> req.target, reply |-> req.reply,
   valid |-> req.valid, passwordOk |-> req.passwordOk, items |-> req.items,
   pc |-> "start", status |-> 0,
   result |-> {},           \* the votes object of a status answer, as its set of entries
   newId |-> 0,             \* result.id of the handler's INSERT
   callerBanned |-> FALSE]  \* history: the caller was banned on arrival

ReqRespond(r, code) == [r EXCEPT !.pc = "done", !.status = code]

ReqAt(r, pc) == [r EXCEPT !.pc = pc]

\* register: validation, then SELECT id FROM users WHERE username = ?
RegisterSelect(r) ==
  IF ~r.valid THEN ReqRespond(r, 400)
  ELSE IF r.target \in DOMAIN users THEN ReqRespond(r, 409)
  ELSE ReqAt(r, "insert")

\* login: validation, then SELECT ... FROM users WHERE username = ?
LoginSelect(r) ==
  IF ~r.valid THEN ReqRespond(r, 400)
  ELSE IF r.target \notin DOMAIN users THEN ReqRespond(r, 401)
  ELSE ReqAt(r, "compare")

\* createComment up to its SELECT of the post: the body is validated first
CreateCommentValidate(r) == IF ~r.valid THEN ReqRespond(r, 400) ELSE ReqAt(r, "post")

\* getVoteStatus up to its SELECT on votes: 400 unless items is a non-empty
\* array, an empty answer when no item survives the filter
ValidItems(items) == {it \in items : it.id # 0 /\ it.type \in {"post", "comment"}}

GetVoteStatusValidate(r) ==
  IF ~r.valid \/ r.items = {} THEN ReqRespond(r, 400)
  ELSE IF ValidItems(r.items) = {} THEN ReqRespond(r, 200)
  ELSE ReqAt(r, "votes")

\* authenticateToken: SELECT id, username FROM users WHERE id = ?, then the
\* next middleware or the handler up to its first statement
AuthenticateToken(r) ==
  IF r.caller \notin DOMAIN users THEN ReqRespond(r, 401)
  ELSE CASE r.kind = "createPost"    -> ReqAt(r, "ban")
         [] r.kind = "createComment" -> CreateCommentValidate(r)
         [] r.kind = "getVoteStatus" -> GetVoteStatusValidate(r)

\* A request arrives and runs to the await of its first statement
ApiArrive(req) ==
  /\ reqs' = Append(reqs,
       LET r == [NewReq(req) EXCEPT
                   !.callerBanned = req.caller \in DOMAIN users /\ users[req.caller].is_banned]
       IN CASE req.kind = "register" -> RegisterSelect(r)
            [] req.kind = "login"    -> LoginSelect(r)
            [] OTHER                 -> AuthenticateToken(r))
  /\ UNCHANGED <<posts, comments, users, reports, reportSeq, modLogs, ops, voteVars,
                 content, seqs, timeline, listing, cleanup>>

ReqIs(i, kind, pc) == reqs[i].kind = kind /\ reqs[i].pc = pc

apiFrame == <<votes, voteSeq, calls, initial, reports, reportSeq, modLogs, ops, timeline, listing, cleanup>>

\* ---- post creation ----

\* checkBanStatus: SELECT is_banned FROM users WHERE id = ?; 403 when banned,
\* else the handler validates the body and issues its INSERT
CheckBanStatus(i) ==
  /\ ReqIs(i, "createPost", "ban")
  /\ LET r == reqs[i]
     IN reqs' = [reqs EXCEPT ![i] =
          IF r.caller \in DOMAIN users /\ users[r.caller].is_banned THEN ReqRespond(r, 403)
          ELSE IF ~r.valid THEN ReqRespond(r, 400)
          ELSE ReqAt(r, "insert")]
  /\ UNCHANGED <<posts, comments, users, content, seqs, apiFrame>>

\* INSERT INTO posts (title, url, image_url, body, author_id): votes DEFAULT 0
CreatePostInsert(i) ==
  /\ ReqIs(i, "createPost", "insert")
  /\ \E ok \in BOOLEAN :
       IF ok
       THEN LET id == seqs.posts + 1
            IN /\ posts' = [x \in DOMAIN posts \cup {id} |-> IF x = id THEN 0 ELSE posts[x]]
               /\ content' = [content EXCEPT !.post =
                    [x \in DOMAIN content.post \cup {id} |->
                       IF x = id THEN [author_id |-> reqs[i].caller] ELSE content.post[x]]]
               /\ seqs' = [seqs EXCEPT !.posts = id]
               /\ reqs' = [reqs EXCEPT ![i] = [ReqAt(@, "created") EXCEPT !.newId = id]]
       ELSE /\ reqs' = [reqs EXCEPT ![i] = ReqRespond(@, 500)]
            /\ UNCHANGED <<posts, content, seqs>>
  /\ UNCHANGED <<comments, users, apiFrame>>

\* ---- comment creation (no ban check on this route) ----

\* SELECT id FROM posts WHERE id = ?
CreateCommentSelectPost(i) ==
  /\ ReqIs(i, "createComment", "post")
  /\ LET r == reqs[i]
     IN reqs' = [reqs EXCEPT ![i] =
          IF r.target \notin DOMAIN posts THEN ReqRespond(r, 404)
          ELSE IF r.reply # 0 THEN ReqAt(r, "parent")
          ELSE ReqAt(r, "insert")]
  /\ UNCHANGED <<posts, comments, users, content, seqs, apiFrame>>

\* SELECT id FROM comments WHERE id = ? AND post_id = ?
CreateCommentSelectParent(i) ==
  /\ ReqIs(i, "createComment", "parent")
  /\ LET r == reqs[i]
     IN reqs' = [reqs EXCEPT ![i] =
          IF r.reply \in DOMAIN comments /\ content.comment[r.reply].post_id = r.target
          THEN ReqAt(r, "insert")
          ELSE ReqRespond(r, 404)]
  /\ UNCHANGED <<posts, comments, users, content, seqs, apiFrame>>

\* INSERT INTO comments (post_id, author_id, body, reply_to_id): votes DEFAULT 0
CreateCommentInsert(i) ==
  /\ ReqIs(i, "createComment", "insert")
  /\ \E ok \in BOOLEAN :
       IF ok
       THEN LET id == seqs.comments + 1
            IN /\ comments' = [x \in DOMAIN comments \cup {id} |->
                                 IF x = id THEN 0 ELSE comments[x]]
               /\ content' = [content EXCEPT !.comment =
                    [x \in DOMAIN content.comment \cup {id} |->
                       IF x = id THEN [author_id |-> reqs[i].caller, post_id |-> reqs[i].target]
                       ELSE content.comment[x]]]
               /\ seqs' = [seqs EXCEPT !.comments = id]
               /\ reqs' = [reqs EXCEPT ![i] = [ReqAt(@, "created") EXCEPT !.newId = id]]
       ELSE /\ reqs' = [reqs EXCEPT ![i] = ReqRespond(@, 500)]
            /\ UNCHANGED <<comments, content, seqs>>
  /\ UNCHANGED <<posts, users, apiFrame>>

\* SELECT of the created row joined with its author, then 201
CreatedSelect(i) ==
  /\ reqs[i].kind \in {"createPost", "createComment"}
  /\ reqs[i].pc = "created"
  /\ reqs' = [reqs EXCEPT ![i] = ReqRespond(@, 201)]
  /\ UNCHANGED <<posts, comments, users, content, seqs, apiFrame>>

\* ---- register and login ----

\* bcrypt.hash, then INSERT INTO users (username, password_hash): role DEFAULT
\* 'user', is_banned DEFAULT 0; username is UNIQUE
RegisterInsert(i) ==
  /\ ReqIs(i, "register", "insert")
  /\ \E ok \in BOOLEAN :
       IF ok /\ reqs[i].target \notin DOMAIN users
       THEN LET id == seqs.users + 1
            IN /\ users' = [x \in DOMAIN users \cup {id} |->
                              IF x = id THEN [role |-> "user", is_banned |-> FALSE]
                              ELSE users[x]]
               /\ seqs' = [seqs EXCEPT !.users = id]
               /\ reqs' = [reqs EXCEPT ![i] = [ReqRespond(@, 201) EXCEPT !.newId = id]]
       ELSE /\ reqs' = [reqs EXCEPT ![i] = ReqRespond(@, 500)]
            /\ UNCHANGED <<users, seqs>>
  /\ UNCHANGED <<posts, comments, content, apiFrame>>

\* Faulty variant of LoginCompare: a successful login lifts the ban
LoginCompareUnbanning(i) ==
  /\ ReqIs(i, "login", "compare")
  /\ reqs' = [reqs EXCEPT ![i] = ReqRespond(@, IF @.passwordOk THEN 200 ELSE 401)]
  /\ users' = IF reqs[i].passwordOk /\ reqs[i].target \in DOMAIN users
              THEN [users EXCEPT ![reqs[i].target].is_banned = FALSE] ELSE users
  /\ UNCHANGED <<posts, comments, content, seqs, apiFrame>>

\* bcrypt.compare(password, user.password_hash)
LoginCompare(i) ==
  /\ ReqIs(i, "login", "compare")
  /\ reqs' = [reqs EXCEPT ![i] = ReqRespond(@, IF @.passwordOk THEN 200 ELSE 401)]
  /\ UNCHANGED <<posts, comments, users, content, seqs, apiFrame>>

\* ---- vote status ----

\* SELECT item_id, item_type, vote_type FROM votes WHERE user_id = ? AND (...)
\* The entry voteStatus[`${item_type}_${item_id}`] = vote_type of a row
StatusEntry(v) == [item_type |-> v.item_type, item_id |-> v.item_id, vote_type |-> v.vote_type]

\* Faulty variant of SelectStatusVotes: the rows of every user are returned
SelectStatusVotesOfAnyUser(u, items) ==
  {v \in votes : \E it \in items : v.item_id = it.id /\ v.item_type = it.type}

SelectStatusVotes(u, items) ==
  {v \in votes : /\ v.user_id = u
                 /\ \E it \in items : v.item_id = it.id /\ v.item_type = it.type}

GetVoteStatusSelect(i) ==
  /\ ReqIs(i, "getVoteStatus", "votes")
  /\ LET r == reqs[i]
     IN reqs' = [reqs EXCEPT ![i] =
          [ReqRespond(r, 200) EXCEPT
             !.result = {StatusEntry(v) : v \in SelectStatusVotes(r.caller, ValidItems(r.items))}]]
  /\ UNCHANGED <<posts, comments, users, content, seqs, apiFrame>>

\* ---- the setup-moderator script (its own process on the same database) ----

\* The user named 'admin'
AdminUser == 1

\* UPDATE users SET role = 'moderator' WHERE username = 'moderator', or the
\* INSERT of that user with role 'moderator' when the SELECT found none
SetupModeratorRole ==
  /\ users' = [x \in DOMAIN users \cup {Moderator} |->
                 IF x = Moderator
                 THEN IF x \in DOMAIN users THEN [users[x] EXCEPT !.role = "moderator"]
                      ELSE [role |-> "moderator", is_banned |-> FALSE]
                 ELSE users[x]]
  /\ seqs' = IF Moderator \in DOMAIN users THEN seqs
             ELSE [seqs EXCEPT !.users = IF @ < Moderator THEN Moderator ELSE @]
  /\ UNCHANGED <<posts, comments, content, reqs, apiFrame>>

\* UPDATE users SET role = 'admin' WHERE username = 'admin', if that user exists
SetupAdminRole ==
  /\ AdminUser \in DOMAIN users
  /\ users' = [users EXCEPT ![AdminUser].role = "admin"]
  /\ UNCHANGED <<posts, comments, content, seqs, reqs, apiFrame>>

\* ---- votes, reports, moderation actions, content and accounts, one request at a time ----

MaxSysOps == 2

\* One or two requests for every route
SysVoteRequests ==
  {Request(1, 1, "post", "down"), Request(2, 1, "comment", "up"), Request(1, 1, "user", "up")}

\* The read-only moderation routes called by the moderator
ReadRequests ==
  {ModReq("getStats", Moderator, NoTarget), ModReq("listPosts", Moderator, NoTarget),
   ModReq("listComments", Moderator, NoTarget), ModReq("listUsers", Moderator, NoTarget),
   ModReq("listReports", Moderator, NoTarget),
   ModReq("getUser", Moderator, 1), ModReq("getUser", Moderator, 9)}

\* Every moderation route called by user 1 on a target that exists
UserRoleRequests ==
  {ModReq("getStats", 1, NoTarget), ModReq("listPosts", 1, NoTarget),
   ModReq("listComments", 1, NoTarget), ModReq("listUsers", 1, NoTarget),
   ModReq("listReports", 1, NoTarget), ModReq("getUser", 1, 2),
   ModReq("deletePost", 1, 1), ModReq("deleteComment", 1, 1),
   BulkReq("bulkDeletePosts", 1, {1, 2}), BulkReq("bulkDeleteComments", 1, {1}),
   ModReq("banUser", 1, 2), ModReq("unbanUser", 1, 2),
   ModReq("deleteUserContent", 1, 2), ModReq("dismissReport", 1, 2)}

SysOpRequests ==
  {SubmitReq(1, "post", 1, 0), SubmitReq(2, "post", 2, 0),
   ModReq("dismissReport", Moderator, 2), ModReq("deletePost", Moderator, 1),
   ModReq("deleteComment", Moderator, 1),
   BulkReq("bulkDeletePosts", Moderator, {1, 2}), BulkReq("bulkDeleteComments", Moderator, {1, 9}),
   ModReq("banUser", Moderator, 1), ModReq("banUser", Moderator, 2),
   ModReq("unbanUser", Moderator, 1), ModReq("deleteUserContent", Moderator, 1)}

\* The store before the setup script has run: every account was registered
\* with role DEFAULT 'user'
SysFreshInit ==
  /\ posts = [id \in ModPostIds |-> IF id = 1 THEN 1 ELSE 0]
  /\ comments = [id \in ModCommentIds |-> -1]
  /\ votes = {VoteRow(1, 1, 1, "post", "up"), VoteRow(2, 2, 1, "comment", "down")}
  /\ voteSeq = 2
  /\ calls = <<>>
  /\ initial = [posts |-> posts, comments |-> comments]
  /\ users = [u \in {1, 2, 3} |-> [role |-> "user", is_banned |-> FALSE]]
  /\ reports = {}
  /\ reportSeq = 0
  /\ modLogs = <<>>
  /\ ops = <<>>
  /\ content = InitialContent(ModPostIds, ModCommentIds)
  /\ seqs = InitialSeqs(ModPostIds, ModCommentIds)
  /\ reqs = <<>>
  /\ timeline = <<>>
  /\ listing = NoListing
  /\ cleanup = NoCleanup

\* The store of ModWarmInit after the moderator banned user 2
SysBannedInit ==
  /\ posts = [id \in ModPostIds |-> IF id = 1 THEN 1 ELSE 0]
  /\ comments = [id \in ModCommentIds |-> -1]
  /\ votes = {VoteRow(1, 1, 1, "post", "up"), VoteRow(2, 2, 1, "comment", "down")}
  /\ voteSeq = 2
  /\ calls = <<>>
  /\ initial = [posts |-> posts, comments |-> comments]
  /\ users = [InitialUsers EXCEPT ![2].is_banned = TRUE]
  /\ reports = {ReportRow(1, 2, 1, "post", "dismissed"), ReportRow(2, 1, 1, "comment", "pending")}
  /\ reportSeq = 2
  /\ modLogs = <<LogRow(1, Moderator, "dismiss_report", "report", 1),
                 LogRow(2, Moderator, "ban_user", "user", 2)>>
  /\ ops = <<>>
  /\ content = InitialContent(ModPostIds, ModCommentIds)
  /\ seqs = InitialSeqs(ModPostIds, ModCommentIds)
  /\ reqs = <<>>
  /\ timeline = <<>>
  /\ listing = NoListing
  /\ cleanup = NoCleanup

SysQuiescent ==
  /\ \A i \in 1..Len(calls) : calls[i].pc = "done"
  /\ \A i \in 1..Len(ops) : ops[i].pc = "done"
  /\ \A i \in 1..Len(reqs) : reqs[i].pc = "done"

SysReady == SysQuiescent /\ Len(calls) + Len(ops) + Len(reqs) < MaxSysOps

SysNext ==
  \/ \E req \in SysVoteRequests : SysReady /\ Arrive(req)
  \/ \E req \in SysOpRequests : SysReady /\ ModArrive(req)
  \/ \E req \in ApiRequests : SysReady /\ ApiArrive(req)
  \/ \E i \in 1..Len(calls) : Lookup(i)
  \/ \E i \in 1..Len(calls) : Write(i)
  \/ \E i \in 1..Len(calls) : Count(i)
  \/ \E i \in 1..Len(calls) : ReadVotes(i)
  \/ \E i \in 1..Len(calls) : ReadVote(i)
  \/ \E i \in 1..Len(ops) : SubmitReportCheck(i)
  \/ \E i \in 1..Len(ops) : SubmitReportInsert(i)
  \/ \E i \in 1..Len(ops) : DeletePostDelete(i)
  \/ \E i \in 1..Len(ops) : DeleteCommentDelete(i)
  \/ \E i \in 1..Len(ops) : BulkDeletePostsDelete(i)
  \/ \E i \in 1..Len(ops) : BulkDeleteCommentsDelete(i)
  \/ \E i \in 1..Len(ops) : BanUserUpdate(i)
  \/ \E i \in 1..Len(ops) : UnbanUserUpdate(i)
  \/ \E i \in 1..Len(ops) : DeleteUserContentCountPosts(i)
  \/ \E i \in 1..Len(ops) : DeleteUserContentCountComments(i)
  \/ \E i \in 1..Len(ops) : DeleteUserContentDeletePosts(i)
  \/ \E i \in 1..Len(ops) : DeleteUserContentDeleteComments(i)
  \/ \E i \in 1..Len(ops) : DismissReportUpdate(i)
  \/ \E i \in 1..Len(ops) : LogModerationAction(i)
  \/ \E i \in 1..Len(reqs) : CheckBanStatus(i)
  \/ \E i \in 1..Len(reqs) : CreatePostInsert(i)
  \/ \E i \in 1..Len(reqs) : CreateCommentSelectPost(i)
  \/ \E i \in 1..Len(reqs) : CreateCommentSelectParent(i)
  \/ \E i \in 1..Len(reqs) : CreateCommentInsert(i)
  \/ \E i \in 1..Len(reqs) : CreatedSelect(i)
  \/ \E i \in 1..Len(reqs) : RegisterInsert(i)
  \/ \E i \in 1..Len(reqs) : LoginCompare(i)
  \/ \E i \in 1..Len(reqs) : GetVoteStatusSelect(i)

SysSpec == (ModInit \/ ModWarmInit \/ SysBannedInit) /\ [][SysNext]_vars

\* ---- /stats next to requests that write, with the history of the store ----

MaxStatsOps == 2

StatsRequests ==
  {ModReq("getStats", Moderator, NoTarget),
   ModReq("deleteUserContent", Moderator, 1), ModReq("deletePost", Moderator, 1),
   ModReq("banUser", Moderator, 2), SubmitReq(1, "post", 2, 0)}

\* The six counts of the current store, in the order of the answer of /stats
StoreCounts ==
  <<Cardinality(DOMAIN posts), Cardinality(DOMAIN comments),
    Cardinality({x \in DOMAIN posts \cup {r.reported_item_id : r \in reports} :
       \E r \in reports : /\ r.reported_item_id = x /\ r.reported_item_type = "post"
                          /\ r.status = "pending"}),
    Cardinality({x \in DOMAIN comments \cup {r.reported_item_id : r \in reports} :
       \E r \in reports : /\ r.reported_item_id = x /\ r.reported_item_type = "comment"
                          /\ r.status = "pending"}),
    Cardinality(DOMAIN users),
    Cardinality({u \in DOMAIN users : users[u].is_banned})>>

Observed == timeline # <<>> /\ timeline[Len(timeline)] = StoreCounts

\* History step: the counts of the store just reached are written down
\* before anything else happens
Observe ==
  /\ ~Observed
  /\ timeline' = Append(timeline, StoreCounts)
  /\ UNCHANGED <<posts, comments, users, reports, reportSeq, modLogs, ops, voteVars,
                 content, seqs, reqs, listing, cleanup>>

StatsNext ==
  \/ Observe
  \/ \E req \in StatsRequests : Observed /\ Len(ops) < MaxStatsOps /\ ModArrive(req)
  \/ \E i \in 1..Len(ops) : Observed /\ GetStatsQuery(i)
  \/ \E i \in 1..Len(ops) : Observed /\ ReadRespond(i)
  \/ \E i \in 1..Len(ops) : Observed /\ SubmitReportCheck(i)
  \/ \E i \in 1..Len(ops) : Observed /\ SubmitReportInsert(i)
  \/ \E i \in 1..Len(ops) : Observed /\ DeletePostDelete(i)
  \/ \E i \in 1..Len(ops) : Observed /\ BanUserUpdate(i)
  \/ \E i \in 1..Len(ops) : Observed /\ DeleteUserContentCountPosts(i)
  \/ \E i \in 1..Len(ops) : Observed /\ DeleteUserContentCountComments(i)
  \/ \E i \in 1..Len(ops) : Observed /\ DeleteUserContentDeletePosts(i)
  \/ \E i \in 1..Len(ops) : Observed /\ DeleteUserContentDeleteComments(i)
  \/ \E i \in 1..Len(ops) : Observed /\ LogModerationAction(i)

StatsSpec == (ModInit \/ ModWarmInit) /\ [][StatsNext]_vars

\* ---- pagination of the listing routes (/posts, /comments, /users, /reports) ----

\* Largest number of rows that match the listing's WHERE clause
MaxRows == 3

\* parseInt(req.query.x): NaN when the value is absent or not a number
QueryValue(numeric, n) == [numeric |-> numeric, n |-> n]

QueryValues ==
  {QueryValue(FALSE, 0)} \cup {QueryValue(TRUE, n) : n \in {-2, -1, 0, 1, 2, 3, 1000}}

DefaultPage == 1
DefaultLimit == 20

\* parseInt(v) || d: NaN and 0 are falsy
ParseIntOr(v, d) == IF ~v.numeric \/ v.n = 0 THEN d ELSE v.n

\* Number of rows of SELECT ... LIMIT limit OFFSET offset over a result of
\* matching rows: SQLite reads a negative LIMIT as no limit and a negative
\* OFFSET as 0
SelectLimitOffset(matching, limit, offset) ==
  LET skipped == IF offset < 0 THEN 0 ELSE offset
      left == IF matching > skipped THEN matching - skipped ELSE 0
  IN IF limit < 0 \/ left < limit THEN left ELSE limit

\* A listing request with its query values, over a table of rows matching rows
PageInit ==
  /\ posts = [id \in ModPostIds |-> IF id = 1 THEN 1 ELSE 0]
  /\ comments = [id \in ModCommentIds |-> -1]
  /\ votes = {VoteRow(1, 1, 1, "post", "up"), VoteRow(2, 2, 1, "comment", "down")}
  /\ voteSeq = 2
  /\ calls = <<>>
  /\ initial = [posts |-> posts, comments |-> comments]
  /\ users = InitialUsers
  /\ reports = {}
  /\ reportSeq = 0
  /\ modLogs = <<>>
  /\ ops = <<>>
  /\ content = InitialContent(ModPostIds, ModCommentIds)
  /\ seqs = InitialSeqs(ModPostIds, ModCommentIds)
  /\ reqs = <<>>
  /\ timeline = <<>>
  /\ cleanup = NoCleanup
  /\ \E page, limit \in QueryValues : \E rows \in 0..MaxRows :
       listing = [pc |-> "parse", pageQuery |-> page, limitQuery |-> limit, rows |-> rows]

\* const page = ...; const limit = ...; const offset = (page - 1) * limit
ListingParse ==
  /\ listing.pc = "parse"
  /\ LET page == ParseIntOr(listing.pageQuery, DefaultPage)
         limit == ParseIntOr(listing.limitQuery, DefaultLimit)
     IN listing' = [pc |-> "select", pageQuery |-> listing.pageQuery,
                    limitQuery |-> listing.limitQuery, rows |-> listing.rows,
                    page |-> page, limit |-> limit, offset |-> (page - 1) * limit]
  /\ UNCHANGED <<posts, comments, users, reports, reportSeq, modLogs, ops, voteVars,
                 content, seqs, reqs, timeline, cleanup>>

\* db.all(... LIMIT ? OFFSET ?)
ListingSelect ==
  /\ listing.pc = "select"
  /\ listing' = [pc |-> "respond", pageQuery |-> listing.pageQuery,
                 limitQuery |-> listing.limitQuery, rows |-> listing.rows,
                 page |-> listing.page, limit |-> listing.limit, offset |-> listing.offset,
                 returned |-> SelectLimitOffset(listing.rows, listing.limit, listing.offset)]
  /\ UNCHANGED <<posts, comments, users, reports, reportSeq, modLogs, ops, voteVars,
                 content, seqs, reqs, timeline, cleanup>>

\* res.json({..., pagination: {page, limit, hasMore: rows.length === limit}})
ListingRespond ==
  /\ listing.pc = "respond"
  /\ listing' = [pc |-> "done", pageQuery |-> listing.pageQuery,
                 limitQuery |-> listing.limitQuery, rows |-> listing.rows,
                 page |-> listing.page, limit |-> listing.limit, offset |-> listing.offset,
                 returned |-> listing.returned, hasMore |-> listing.returned = listing.limit]
  /\ UNCHANGED <<posts, comments, users, reports, reportSeq, modLogs, ops, voteVars,
                 content, seqs, reqs, timeline, cleanup>>

PageNext ==
  \/ ListingParse
  \/ ListingSelect
  \/ ListingRespond

PageSpec == PageInit /\ [][PageNext]_vars

\* ---- the cleanup job (time in whole hours since the epoch, UTC) ----

\* Latest clock reading of a run
MaxClock == 50

HoursPerDay == 24

\* 48 * 60 * 60 * 1000 ms
RetentionHours == 48

\* Character codes of the separator between date and time
SpaceChar == 32
LetterT == 84

\* The text SQLite's CURRENT_TIMESTAMP stores, 'YYYY-MM-DD HH:MM:SS', and the
\* text of Date.toISOString(), 'YYYY-MM-DDTHH:MM:SS.sssZ': the zero-padded
\* date, the separator, the zero-padded time
SqliteTimestamp(t) == <<t \div HoursPerDay, SpaceChar, t % HoursPerDay>>
IsoTimestamp(t) == <<t \div HoursPerDay, LetterT, t % HoursPerDay>>

\* a < b for two texts of this shape, compared character by character
TextLess(a, b) ==
  \E k \in 1..Len(a) : a[k] < b[k] /\ \A j \in 1..(k - 1) : a[j] = b[j]

\* posts WHERE created_at < ?
OlderThan(cutoff) ==
  {x \in DOMAIN posts : TextLess(SqliteTimestamp(cleanup.created_at[x]), cutoff)}

\* The job starts at some hour, over posts created at any earlier hours
CleanupInit ==
  /\ posts = [id \in ModPostIds |-> IF id = 1 THEN 1 ELSE 0]
  /\ comments = [id \in ModCommentIds |-> -1]
  /\ votes = {VoteRow(1, 1, 1, "post", "up"), VoteRow(2, 2, 1, "comment", "down")}
  /\ voteSeq = 2
  /\ calls = <<>>
  /\ initial = [posts |-> posts, comments |-> comments]
  /\ users = InitialUsers
  /\ reports = {}
  /\ reportSeq = 0
  /\ modLogs = <<>>
  /\ ops = <<>>
  /\ content = InitialContent(ModPostIds, ModCommentIds)
  /\ seqs = InitialSeqs(ModPostIds, ModCommentIds)
  /\ reqs = <<>>
  /\ timeline = <<>>
  /\ listing = NoListing
  /\ \E now \in RetentionHours..MaxClock : \E created \in [ModPostIds -> 0..now] :
       cleanup = [pc |-> "select", now |-> now, created_at |-> created,
                  cutoffTime |-> <<>>, oldPosts |-> {}, changes |-> 0]

cleanupFrame == <<comments, users, reports, reportSeq, modLogs, ops, voteVars,
                  content, seqs, reqs, timeline, listing>>

\* cutoffTime = new Date(Date.now() - 48h); SELECT id, title FROM posts WHERE
\* created_at < cutoffTime.toISOString(); return when nothing was found
CleanupSelect ==
  /\ cleanup.pc = "select"
  /\ LET cutoff == IsoTimestamp(cleanup.now - RetentionHours)
         old == OlderThan(cutoff)
     IN cleanup' = [cleanup EXCEPT !.cutoffTime = cutoff, !.oldPosts = old,
                                   !.pc = IF old = {} THEN "done" ELSE "delete"]
  /\ UNCHANGED <<posts, cleanupFrame>>

\* DELETE FROM posts WHERE created_at < cutoffTime.toISOString()
CleanupDelete ==
  /\ cleanup.pc = "delete"
  /\ LET old == OlderThan(cleanup.cutoffTime)
     IN /\ posts' = [x \in DOMAIN posts \ old |-> posts[x]]
        /\ cleanup' = [cleanup EXCEPT !.changes = Cardinality(old), !.pc = "stats"]
  /\ UNCHANGED cleanupFrame

\* The three COUNT(*) queries whose results are logged
CleanupCount ==
  /\ cleanup.pc = "stats"
  /\ cleanup' = [cleanup EXCEPT !.pc = "done"]
  /\ UNCHANGED <<posts, cleanupFrame>>

CleanupNext ==
  \/ CleanupSelect
  \/ CleanupDelete
  \/ CleanupCount

CleanupSpec == CleanupInit /\ [][CleanupNext]_vars

\* ---- the moderation routes and the setup script, one request at a time ----

MaxGateOps == 2

GateRequests == SysOpRequests \cup ReadRequests \cup UserRoleRequests

GateReady == ModQuiescent /\ Len(ops) < MaxGateOps

GateNext ==
  \/ \E req \in GateRequests : GateReady /\ ModArrive(req)
  \/ ModQuiescent /\ SetupModeratorRole
  \/ ModQuiescent /\ SetupAdminRole
  \/ \E i \in 1..Len(ops) : SubmitReportCheck(i)
  \/ \E i \in 1..Len(ops) : SubmitReportInsert(i)
  \/ \E i \in 1..Len(ops) : DeletePostDelete(i)
  \/ \E i \in 1..Len(ops) : DeleteCommentDelete(i)
  \/ \E i \in 1..Len(ops) : BulkDeletePostsDelete(i)
  \/ \E i \in 1..Len(ops) : BulkDeleteCommentsDelete(i)
  \/ \E i \in 1..Len(ops) : BanUserUpdate(i)
  \/ \E i \in 1..Len(ops) : UnbanUserUpdate(i)
  \/ \E i \in 1..Len(ops) : DeleteUserContentCountPosts(i)
  \/ \E i \in 1..Len(ops) : DeleteUserContentCountComments(i)
  \/ \E i \in 1..Len(ops) : DeleteUserContentDeletePosts(i)
  \/ \E i \in 1..Len(ops) : DeleteUserContentDeleteComments(i)
  \/ \E i \in 1..Len(ops) : DismissReportUpdate(i)
  \/ \E i \in 1..Len(ops) : LogModerationAction(i)
  \/ \E i \in 1..Len(ops) : GetUserSelectContent(i)
  \/ \E i \in 1..Len(ops) : GetStatsQuery(i)
  \/ \E i \in 1..Len(ops) : ReadRespond(i)

GateSpec == (SysFreshInit \/ ModWarmInit) /\ [][GateNext]_vars

----------------------------------------------------------------------------
(* Notions the properties are stated in *)

\* (number of Up rows) - (number of Down rows) of an item
SignedSum(rows, t, id) ==
  Cardinality({r \in rows : r.item_type = t /\ r.item_id = id /\ r.vote_type = "up"})
  - Cardinality({r \in rows : r.item_type = t /\ r.item_id = id /\ r.vote_type = "down"})

\* The stored votes counter of an existing item
Counter(t, id) == IF t = "post" THEN posts[id] ELSE comments[id]

ExistingIds(t) == IF t = "post" THEN DOMAIN posts ELSE DOMAIN comments

\* The votes counter the item had in the initial store
InitialCounter(t, id) == IF t = "post" THEN initial.posts[id] ELSE initial.comments[id]

CounterMatchesLedger ==
  \A t \in ItemTypes : \A id \in ExistingIds(t) : Counter(t, id) = SignedSum(votes, t, id)

\* The handler of call c has executed its counter UPDATE.
Counted(c) == c.action # "" /\ c.pc # "count"

SameItem(c, d) == c.itemType = d.itemType /\ c.itemId = d.itemId

\* Sum of the voteDelta of the first n calls that have executed their counter
\* UPDATE on item (t, id)
RECURSIVE SumDeltas(_, _, _)
SumDeltas(n, t, id) ==
  IF n = 0 THEN 0
  ELSE SumDeltas(n - 1, t, id)
       + (IF Counted(calls[n]) /\ calls[n].itemType = t /\ calls[n].itemId = id
          THEN calls[n].voteDelta ELSE 0)

\* Calls i < j are successive calls for one item: same item, both answered
\* 200, and no call for that item arrived between them.
SuccessiveOnItem(i, j) ==
  /\ i < j
  /\ SameItem(calls[i], calls[j])
  /\ calls[i].status = 200 /\ calls[j].status = 200
  /\ \A k \in (i + 1)..(j - 1) : ~SameItem(calls[k], calls[i])

\* SeqSpec reaches the store WarmInit describes, with no request in flight.
SeqReachesWarmStore ==
  /\ Quiescent
  /\ posts = [x \in InitialPostIds |-> 1]
  /\ comments = [x \in InitialCommentIds |-> -1]
  /\ votes = {VoteRow(1, 1, 1, "post", "up"), VoteRow(2, 2, 1, "comment", "down")}
  /\ voteSeq = 2

----------------------------------------------------------------------------
(* Properties *)

\* C1 (SeqSpec): after every sequence of castOrUpdateVote calls run one at a
\* time, the votes counter of every existing post and comment equals the number
\* of its Up rows minus the number of its Down rows.
C1_SeqCounterEqualsSignedSum == Quiescent => CounterMatchesLedger

\* C1 witness: two calls have run to completion and left non-zero counters.
C1_Witness == SeqReachesWarmStore /\ Len(calls) = 2

\* C2 (Spec): in every reachable state, also between two store statements of a
\* call in flight, every counter equals the signed sum of the item's Vote rows.
C2_AtomicUnit == CounterMatchesLedger

\* C3 (Spec): once all of any number of interleaved calls have been answered,
\* every counter equals the signed sum of the item's Vote rows.
C3_ConcurrentFinalCounter ==
  (\A i \in 1..Len(calls) : calls[i].status # 0) => CounterMatchesLedger

\* C4 (Spec): no counter update is lost: the counter of every item equals its
\* initial value plus the sum of the deltas of the calls that have executed
\* their counter UPDATE on it, whatever the interleaving.
C4_NoLostUpdate ==
  \A t \in ItemTypes : \A id \in ExistingIds(t) :
    Counter(t, id) = InitialCounter(t, id) + SumDeltas(Len(calls), t, id)

\* C4 witness: two calls of different users on one item are both in flight and
\* both have executed their counter UPDATE.
C4_Witness ==
  \E i, j \in 1..Len(calls) :
    /\ calls[i].user # calls[j].user
    /\ SameItem(calls[i], calls[j])
    /\ calls[i].pc \in {"readVotes", "readVote"}
    /\ calls[j].pc \in {"readVotes", "readVote"}

\* C5 (Spec): at most one Vote row per (userId, itemType, itemId).
C5_OneVotePerTriple ==
  \A r1, r2 \in votes :
    (r1.user_id = r2.user_id /\ r1.item_id = r2.item_id /\ r1.item_type = r2.item_type)
      => r1 = r2

\* C5 witness: two calls of one user on one item both found no vote, one
\* inserted its row and the INSERT of the other was rejected.
C5_Witness ==
  \E i, j \in 1..Len(calls) :
    /\ i # j
    /\ calls[i].user = calls[j].user /\ SameItem(calls[i], calls[j])
    /\ calls[i].action = "created"
    /\ calls[j].status = 500 /\ calls[j].existingVote = NoVote

\* C6 (SeqSpec): a call answered 200 behaves by case on the caller's prior
\* vote: none -> created, row of the requested type, counter +1 / -1;
\* same type -> removed, no row, counter -1 / +1, userVote null;
\* other type -> updated, row flipped, counter +2 / -2.
C6_ResponseCase(c) ==
  LET up == c.voteType = "up" IN
  IF c.preVote = "none"
    THEN c.action = "created" /\ c.userVote = c.voteType
         /\ c.votes = c.preVotes + (IF up THEN 1 ELSE -1)
  ELSE IF c.preVote = c.voteType
    THEN c.action = "removed" /\ c.userVote = "null"
         /\ c.votes = c.preVotes + (IF up THEN -1 ELSE 1)
  ELSE c.action = "updated" /\ c.userVote = c.voteType
       /\ c.votes = c.preVotes + (IF up THEN 2 ELSE -2)

C6_StoreCase(c) ==
  /\ Counter(c.itemType, c.itemId) = c.votes
  /\ IF c.preVote = c.voteType
       THEN VotesOf(votes, c.user, c.itemId, c.itemType) = {}
       ELSE /\ Cardinality(VotesOf(votes, c.user, c.itemId, c.itemType)) = 1
            /\ \A r \in VotesOf(votes, c.user, c.itemId, c.itemType) :
                 r.vote_type = c.voteType

C6_CaseAnalysis ==
  \A i \in 1..Len(calls) :
    calls[i].status = 200 =>
      /\ C6_ResponseCase(calls[i])
      /\ (i = Len(calls) => C6_StoreCase(calls[i]))

\* C6 witness: the three cases have all happened.
C6_Witness ==
  /\ Quiescent
  /\ \E i, j, k \in 1..Len(calls) :
       /\ calls[i].status = 200 /\ calls[i].action = "created"
       /\ calls[j].status = 200 /\ calls[j].action = "removed"
       /\ calls[k].status = 200 /\ calls[k].action = "updated"

\* C7 (SeqSpec): for a user with no vote on an item, two successive calls with
\* the same vote type leave no Vote row of that user for the item, the counter
\* at its value before the first call, and the second call returns userVote null.
C7_Case(i, j) ==
  /\ j = Len(calls)
  /\ SuccessiveOnItem(i, j)
  /\ calls[i].user = calls[j].user
  /\ calls[i].voteType = calls[j].voteType
  /\ calls[i].preVote = "none"

C7_SameTypeTwice ==
  \A i, j \in 1..Len(calls) :
    C7_Case(i, j) =>
      /\ VotesOf(votes, calls[j].user, calls[j].itemId, calls[j].itemType) = {}
      /\ Counter(calls[j].itemType, calls[j].itemId) = calls[i].preVotes
      /\ calls[j].userVote = "null"

\* C7 witness: the case happens, with a call for another item in between and
\* another user's vote on the item.
C7_Witness ==
  \E i, j \in 1..Len(calls) :
    C7_Case(i, j) /\ j > i + 1 /\ calls[i].preVotes # 0

\* C8 (SeqSpec): for a user holding a vote of type T on an item, casting the
\* other type and then T again restores the vote to T and the counter to its
\* value before the two calls; the two deltas sum to zero.
C8_Case(i, j) ==
  /\ j = Len(calls)
  /\ SuccessiveOnItem(i, j)
  /\ calls[i].user = calls[j].user
  /\ calls[i].preVote \in VoteTypes
  /\ calls[i].voteType # calls[i].preVote
  /\ calls[j].voteType = calls[i].preVote

C8_SwitchTwice ==
  \A i, j \in 1..Len(calls) :
    C8_Case(i, j) =>
      /\ SelectVote(votes, calls[j].user, calls[j].itemId, calls[j].itemType).vote_type
           = calls[i].preVote
      /\ calls[j].userVote = calls[i].preVote
      /\ Counter(calls[j].itemType, calls[j].itemId) = calls[i].preVotes
      /\ calls[i].voteDelta + calls[j].voteDelta = 0

C8_Witness == \E i, j \in 1..Len(calls) : C8_Case(i, j)

\* C9 (Spec): a step of the handler of a call by user U on item X changes only
\* U's Vote row for X and X's counter: the Vote rows of other users and of
\* other items, and the counters of other items, stay as they are.
C9_OtherRow(c, r) ==
  ~(r.user_id = c.user /\ r.item_id = c.itemId /\ r.item_type = c.itemType)

C9_FrameOf(c) ==
  /\ \A r \in votes : C9_OtherRow(c, r) => r \in votes'
  /\ \A r \in votes' : C9_OtherRow(c, r) => r \in votes
  /\ DOMAIN posts' = DOMAIN posts /\ DOMAIN comments' = DOMAIN comments
  /\ \A id \in DOMAIN posts :
       ~(c.itemType = "post" /\ c.itemId = id) => posts'[id] = posts[id]
  /\ \A id \in DOMAIN comments :
       ~(c.itemType = "comment" /\ c.itemId = id) => comments'[id] = comments[id]

C9_FrameStep ==
  \A i \in 1..Len(calls') :
    (i > Len(calls) \/ calls'[i] # calls[i]) => C9_FrameOf(calls'[i])

C9_Frame == [][C9_FrameStep]_vars

\* C9 witness: a call on an item has been answered 200 while another user
\* holds a vote on that item and there is a vote on the other item.
C9_Witness ==
  \E i \in 1..Len(calls) :
    /\ calls[i].status = 200
    /\ \E r \in votes : r.user_id # calls[i].user /\ r.item_id = calls[i].itemId
                        /\ r.item_type = calls[i].itemType
    /\ \E r \in votes : r.item_id = calls[i].itemId /\ r.item_type # calls[i].itemType

\* C10 (Spec): the votes value a call answered 200 returns is the counter just
\* before that call's counter UPDATE plus that call's delta, also when votes of
\* other users on the same item run concurrently.  Stated for the calls whose
\* item no other call of the same user touches, so that a violation is due to
\* other users' votes alone.
C10_OnlyOtherUsers(i) ==
  \A j \in 1..Len(calls) :
    (j # i /\ SameItem(calls[i], calls[j])) => calls[j].user # calls[i].user

C10_ReturnedCounter ==
  \A i \in 1..Len(calls) :
    (calls[i].status = 200 /\ C10_OnlyOtherUsers(i)) =>
      calls[i].votes = calls[i].votesBefore + calls[i].voteDelta

\* C11 (SeqSpec): a call whose itemType is not post or comment, or whose
\* voteType is not up or down, is answered 400 (Invalid); a well-formed call
\* naming an item id that has no row is answered 404 (NotFound); the step that
\* rejects it changes no Vote row and no counter, and a rejected call never
\* wrote anything.
C11_Invalid(c) == c.itemType \notin {"post", "comment"} \/ c.voteType \notin {"up", "down"}

C11_Missing(c) ==
  /\ ~C11_Invalid(c)
  /\ c.itemId # 0
  /\ c.itemId \notin ExistingIds(c.itemType)

C11_StoreUnchanged ==
  posts' = posts /\ comments' = comments /\ votes' = votes /\ voteSeq' = voteSeq

C11_RejectStep ==
  /\ Len(calls') = Len(calls) + 1 =>
       LET c == calls'[Len(calls')] IN
         /\ C11_Invalid(c) => (c.status = 400 /\ c.pc = "done" /\ C11_StoreUnchanged)
         /\ C11_Missing(c) => (c.status = 404 /\ c.pc = "done" /\ C11_StoreUnchanged)
  /\ \A i \in 1..Len(calls) :
       calls[i].status \in {400, 404} => (calls'[i] = calls[i] /\ calls[i].action = "")

C12_WellFormed(o) ==
  /\ o.kind = "submitReport"
  /\ o.target # 0
  /\ o.itemType \in {"post", "comment"}
  /\ o.reasonLen <= 500

C12_Unique ==
  \A r1, r2 \in reports :
    (/\ r1.reporter_id = r2.reporter_id
     /\ r1.reported_item_id = r2.reported_item_id
     /\ r1.reported_item_type = r2.reported_item_type) => r1 = r2

\* C12 as stated: there is at most one report per (reporter, item type,
\* item id), and a submitReport call made when the caller's report of the
\* item already exists, pending or dismissed, fails with Conflict (409) and
\* creates no report.
C12_DuplicateIsConflict ==
  /\ C12_Unique
  /\ \A i \in 1..Len(ops) :
       (C12_WellFormed(ops[i]) /\ ops[i].hadReport /\ ops[i].pc = "done")
         => (ops[i].status = 409 /\ ~ops[i].mutated)

\* C12 amended: there is at most one report per (reporter, item type, item
\* id); a submitReport call made when the caller's report of the item
\* already exists creates no report and fails with Conflict (409) if the
\* item still exists, with NotFound (404) if the item has been deleted.
C12_DuplicateIsConflictOrNotFound ==
  /\ C12_Unique
  /\ \A i \in 1..Len(ops) :
       (C12_WellFormed(ops[i]) /\ ops[i].hadReport /\ ops[i].pc = "done")
         => /\ ops[i].status = (IF ops[i].hadItem THEN 409 ELSE 404)
            /\ ~ops[i].mutated

\* Two refused duplicates, one of a dismissed report and one of a pending one
C12_Witness ==
  \E i, j \in 1..Len(ops) :
    /\ ops[i].hadReport /\ ops[i].status = 409
    /\ ops[j].hadReport /\ ops[j].status = 409
    /\ \E r \in reports : /\ r.reporter_id = ops[i].caller
                          /\ r.reported_item_id = ops[i].target
                          /\ r.reported_item_type = ops[i].itemType
                          /\ r.status = "dismissed"
    /\ \E r \in reports : /\ r.reporter_id = ops[j].caller
                          /\ r.reported_item_id = ops[j].target
                          /\ r.reported_item_type = ops[j].itemType
                          /\ r.status = "pending"

\* The request of ops'[i] arrived or moved on in this step
C13_Moved(i) == i > Len(ops) \/ ops'[i] # ops[i]

C13_Created(o) ==
  \E r \in reports' :
    /\ reports' = reports \cup {r}
    /\ \A q \in reports : q.id # r.id
    /\ r.reporter_id = o.caller
    /\ r.reported_item_id = o.target
    /\ r.reported_item_type = o.itemType
    /\ r.status = "pending"

C13_SubmitStep ==
  \A i \in 1..Len(ops') :
    (ops'[i].kind = "submitReport" /\ C13_Moved(i)) =>
      LET o == ops'[i] IN
        /\ posts' = posts /\ comments' = comments
        /\ votes' = votes /\ voteSeq' = voteSeq
        /\ (C12_WellFormed(o) /\ ~o.hadItem) => (o.pc = "done" /\ o.status = 404)
        /\ (C12_WellFormed(o) /\ o.hadItem /\ ~o.hadReport /\ o.pc = "done")
             => (o.status = 201 /\ C13_Created(o))
        /\ (o.pc # "done" \/ o.status # 201) => reports' = reports

\* C13: served on its own, submitReport on an existing item the caller has
\* not reported yet answers 201 and adds exactly one report, pending, of
\* that item by that caller, under a fresh id; on a missing item it answers
\* 404 and adds none; no step of it changes a post, a comment, a counter or
\* a vote row.
C13_SubmitReport == [][C13_SubmitStep]_vars

\* A report was created and another was refused for a missing item, in a
\* store that holds votes and counters
C13_Witness ==
  /\ votes # {}
  /\ \E p \in DOMAIN posts : posts[p] # 0
  /\ \E i, j \in 1..Len(ops) :
       /\ ops[i].kind = "submitReport" /\ ops[i].status = 201
       /\ \E r \in reports : r.reporter_id = ops[i].caller /\ r.status = "pending"
                              /\ r.reported_item_id = ops[i].target
       /\ ops[j].kind = "submitReport" /\ ops[j].status = 404 /\ ~ops[j].hadItem

ReportIds(rs) == {r.id : r \in rs}

\* The dismissReport request that carries out its UPDATE of report id in this step
C14_DismissedBy(id) ==
  \E i \in 1..Len(ops) :
    /\ ops[i].kind = "dismissReport"
    /\ ops[i].target = id
    /\ ops[i].pc = "mutate"
    /\ ops'[i].mutated

C14_ReportStep ==
  /\ ReportIds(reports) \subseteq ReportIds(reports')
  /\ \A r \in reports : \A q \in reports' :
       (q.id = r.id) =>
         /\ q.reporter_id = r.reporter_id
         /\ q.reported_item_id = r.reported_item_id
         /\ q.reported_item_type = r.reported_item_type
         /\ (q.status # r.status) => C14_DismissedBy(r.id)

\* C14: no step of any request removes a report (the set of report ids only
\* grows, also when the reported item or its author's content is deleted),
\* and a report's status changes only in the UPDATE of a dismissReport
\* request for that report.
C14_ReportsNeverRemoved == [][C14_ReportStep]_vars

\* A reported post is gone, its report is still there, and another report
\* was dismissed meanwhile
C14_Witness ==
  /\ \E r \in reports : r.reported_item_type = "post"
                        /\ r.reported_item_id \notin DOMAIN posts
  /\ \E i \in 1..Len(ops) :
       /\ ops[i].kind = "dismissReport" /\ ops[i].mutated
       /\ \E r \in reports : r.id = ops[i].target /\ r.status = "dismissed"
                             /\ r.reported_item_type = "comment"

C15_StatusStep ==
  \A r \in reports : \A q \in reports' :
    (q.id = r.id /\ q.status # r.status) =>
      /\ r.status = "pending"
      /\ q.status \in {"dismissed", "reviewed"}

\* C15: a report that is dismissed or reviewed keeps its status in every
\* step; the status of a report changes only from pending, to dismissed or
\* to reviewed.
C15_TerminalStatus == [][C15_StatusStep]_vars

\* A report was dismissed twice: the audit log holds two dismiss_report
\* entries for it, and it is dismissed
C15_Witness ==
  \E a, b \in 1..Len(modLogs) :
    /\ a < b
    /\ modLogs[a].action = "dismiss_report" /\ modLogs[b].action = "dismiss_report"
    /\ modLogs[a].target_id = modLogs[b].target_id
    /\ \E r \in reports : r.id = modLogs[a].target_id /\ r.status = "dismissed"

(***************************************************************************)
(* dismissReport (ModSpec)                                                 *)
(***************************************************************************)

C16_IsModerator(o) ==
  o.caller \in DOMAIN users /\ users[o.caller].role \in {"moderator", "admin"}

C16_Entry(o) ==
  [id |-> Len(modLogs) + 1, moderator_id |-> o.caller, action |-> "dismiss_report",
   target_type |-> "report", target_id |-> o.target]

C16_DismissStep ==
  \A i \in 1..Len(ops') :
    (ops'[i].kind = "dismissReport" /\ C13_Moved(i) /\ C16_IsModerator(ops'[i])) =>
      LET o == ops'[i] IN
        /\ (i > Len(ops)) =>
             /\ reports' = reports /\ modLogs' = modLogs
             /\ IF \E r \in reports : r.id = o.target
                  THEN o.pc = "mutate"
                  ELSE o.pc = "done" /\ o.status = 404
        /\ (i <= Len(ops) /\ o.mutated /\ o.pc = "log") =>
             /\ modLogs' = modLogs
             /\ \A r \in reports :
                  /\ (r.id = o.target) => [r EXCEPT !.status = "dismissed"] \in reports'
                  /\ (r.id = o.target /\ r.status = "dismissed") => reports' = reports
        /\ (i <= Len(ops) /\ o.pc = "done") =>
             \/ /\ ~o.mutated /\ o.status = 500 /\ o.logId = 0
                /\ reports' = reports /\ modLogs' = modLogs
             \/ /\ o.mutated /\ o.status = 200
                /\ reports' = reports
                /\ \A r \in reports' : (r.id = o.target) => r.status = "dismissed"
                /\ IF o.logFailed THEN modLogs' = modLogs
                                  ELSE modLogs' = Append(modLogs, C16_Entry(o))

\* C16: dismissReport by a moderator on an existing report goes through
\* whatever the report's status: unless the store rejects a statement, it
\* answers 200 and leaves the report dismissed (an already dismissed report
\* is left as it was), and each call that answers 200 appends exactly one
\* entry (caller, dismiss_report, report, report id) unless the insert of
\* the entry itself fails; on an absent report id it answers 404, changes
\* no report and appends no entry.
C16_DismissReport == [][C16_DismissStep]_vars

\* An already dismissed report was dismissed again with success and an
\* audit entry, and a dismissal of an absent report was refused
C16_Witness ==
  \E i, j \in 1..Len(ops) :
    /\ ops[i].kind = "dismissReport" /\ ops[i].status = 200 /\ ops[i].logId > 1
    /\ \E a \in 1..(ops[i].logId - 1) :
         modLogs[a].action = "dismiss_report" /\ modLogs[a].target_id = ops[i].target
    /\ ops[j].kind = "dismissReport" /\ ops[j].status = 404

C17_FrameStep ==
  \A i \in 1..Len(ops') :
    (ops'[i].kind = "dismissReport" /\ C13_Moved(i)) =>
      /\ posts' = posts /\ comments' = comments
      /\ votes' = votes /\ voteSeq' = voteSeq
      /\ users' = users
      /\ reportSeq' = reportSeq
      /\ ReportIds(reports') = ReportIds(reports)
      /\ \A r \in reports :
           IF r.id = ops'[i].target
             THEN r \in reports' \/ [r EXCEPT !.status = "dismissed"] \in reports'
             ELSE r \in reports'

\* C17: no step of a dismissReport request changes a post, a comment, a
\* vote row, a counter, a user or a report other than the named one; of the
\* named report it changes at most the status.
C17_DismissFrame == [][C17_FrameStep]_vars

\* A pending report was dismissed and logged while another pending report,
\* the votes and the counters are in the store
C17_Witness ==
  /\ votes # {}
  /\ \E i \in 1..Len(ops) :
       /\ ops[i].kind = "dismissReport" /\ ops[i].status = 200 /\ ops[i].logId # 0
       /\ \E r \in reports : r.id # ops[i].target /\ r.status = "pending"

(***************************************************************************)
(* The audit log (ModSpec)                                                 *)
(***************************************************************************)

C18_IsModeration(o) == o.kind # "submitReport"

\* The entry that names the operation of o
C18_Entry(o) ==
  [id |-> Len(modLogs) + 1,
   moderator_id |-> o.caller,
   action |->
     CASE o.kind = "deletePost"         -> "delete_post"
       [] o.kind = "bulkDeletePosts"    -> "bulk_delete_posts"
       [] o.kind = "deleteComment"      -> "delete_comment"
       [] o.kind = "bulkDeleteComments" -> "bulk_delete_comments"
       [] o.kind = "banUser"            -> "ban_user"
       [] o.kind = "unbanUser"          -> "unban_user"
       [] o.kind = "deleteUserContent"  -> "delete_user_content"
       [] o.kind = "dismissReport"      -> "dismiss_report",
   target_type |->
     CASE o.kind \in {"deletePost", "bulkDeletePosts"}       -> "post"
       [] o.kind \in {"deleteComment", "bulkDeleteComments"} -> "comment"
       [] o.kind \in {"banUser", "unbanUser", "deleteUserContent"} -> "user"
       [] o.kind = "dismissReport"                            -> "report",
   target_id |-> IF o.kind \in {"bulkDeletePosts", "bulkDeleteComments"} THEN 0 ELSE o.target]

C18_LogStep ==
  /\ \A i \in 1..Len(ops') :
       (C18_IsModeration(ops'[i]) /\ C13_Moved(i)) =>
         LET o == ops'[i] IN
           IF o.pc = "done" /\ o.status = 200 /\ ~o.logFailed
             THEN /\ i <= Len(ops)
                  /\ ops[i].mutated
                  /\ modLogs' = Append(modLogs, C18_Entry(o))
             ELSE modLogs' = modLogs
  /\ (modLogs' # modLogs) =>
       \E i \in 1..Len(ops) : /\ C18_IsModeration(ops[i])
                              /\ ops[i].pc # "done"
                              /\ ops'[i].pc = "done"

\* C18: a moderation request appends to the audit log only in the step in
\* which it completes with 200, after its mutation was carried out, and
\* then, unless that insert fails, exactly one entry: the caller as
\* moderator, the action and target type of the operation, and its target
\* (none for a bulk deletion).  A request that ends 400, 403, 404 or 500
\* appends nothing in any of its steps.
C18_OneEntryPerSuccess == [][C18_LogStep]_vars

\* A bulk deletion was logged and another request, whose mutation failed,
\* ended 500 without an entry
C18_Witness ==
  \E i, j \in 1..Len(ops) :
    /\ ops[i].kind = "bulkDeletePosts" /\ ops[i].status = 200 /\ ops[i].logId # 0
    /\ modLogs[ops[i].logId].action = "bulk_delete_posts"
    /\ C18_IsModeration(ops[j]) /\ ops[j].status = 500 /\ ops[j].logId = 0

C19_LogFailureStep ==
  \A i \in 1..Len(ops) :
    (ops'[i].logFailed /\ ~ops[i].logFailed) =>
      /\ ops[i].mutated
      /\ ops'[i].pc = "done" /\ ops'[i].status = 200
      /\ ops'[i].logId = 0
      /\ modLogs' = modLogs
      /\ posts' = posts /\ comments' = comments
      /\ users' = users /\ reports' = reports

\* C19: when the insert of the audit entry fails after the mutation of a
\* moderation request was carried out, the request still answers 200, no
\* entry is written and the failing step leaves posts, comments, users and
\* reports as the mutation left them.
C19_LogFailureSwallowed == [][C19_LogFailureStep]_vars

\* A ban that answered 200 although its audit entry was lost: the user is
\* banned and the log holds no ban_user entry
C19_Witness ==
  \E i \in 1..Len(ops) :
    /\ ops[i].kind = "banUser" /\ ops[i].logFailed /\ ops[i].status = 200
    /\ users[ops[i].target].is_banned
    /\ \A k \in 1..Len(modLogs) : modLogs[k].action # "ban_user"

C20_AppendStep ==
  /\ Len(modLogs') >= Len(modLogs)
  /\ \A k \in 1..Len(modLogs) : modLogs'[k] = modLogs[k]

\* C20: the audit log is append-only: every entry of the log is an entry
\* of the log, at the same place and with the same fields, after every step.
C20_AppendOnly == [][C20_AppendStep]_vars

\* Two entries were appended behind the one the store started with
C20_Witness ==
  /\ Len(modLogs) >= 3
  /\ modLogs[1].action = "dismiss_report"
  /\ modLogs[2].moderator_id = 3 /\ modLogs[3].moderator_id = 3

(***************************************************************************)
(* Moderation of users and content (ModSpec, ModSeqSpec)                   *)
(***************************************************************************)

C21_BanStep ==
  \A i \in 1..Len(ops') :
    (/\ ops'[i].kind \in {"banUser", "unbanUser"}
     /\ C13_Moved(i)
     /\ C16_IsModerator(ops'[i])) =>
      LET o == ops'[i]
          want == (o.kind = "banUser")
      IN
        /\ (i > Len(ops)) =>
             /\ users' = users /\ modLogs' = modLogs
             /\ IF o.target \notin DOMAIN users
                  THEN o.pc = "done" /\ o.status = 404
                  ELSE IF users[o.target].is_banned = want
                  THEN o.pc = "done" /\ o.status = 400
                  ELSE o.pc = "mutate"
        /\ (i <= Len(ops) /\ ops[i].pc = "mutate") =>
             /\ modLogs' = modLogs
             /\ IF o.mutated
                  THEN /\ o.pc = "log"
                       /\ users' = [users EXCEPT ![o.target].is_banned = want]
                  ELSE /\ o.pc = "done" /\ o.status = 500
                       /\ users' = users
        /\ (i <= Len(ops) /\ ops[i].pc = "log") =>
             /\ users' = users
             /\ o.pc = "done" /\ o.status = 200

\* C21: banUser on an existing user who is not banned sets is_banned, and
\* unbanUser on an existing banned user clears it; banUser on a banned user
\* and unbanUser on a user who is not banned are refused as a conflict
\* (which the code answers with status 400), both are refused with 404 for
\* an unknown username, and every refused or failed call leaves every
\* is_banned flag as it was and appends no audit entry.
C21_BanUnban == [][C21_BanStep]_vars

\* A ban went through and a second ban of the same user was refused
C21_Witness ==
  \E i, j \in 1..Len(ops) :
    /\ ops[i].kind = "banUser" /\ ops[i].status = 200 /\ ops[i].mutated
    /\ ops[j].kind = "banUser" /\ ops[j].status = 400 /\ ops[j].targetBanned
    /\ ops[j].target = ops[i].target
    /\ users[ops[i].target].is_banned

\* The causes of the four kinds of refusal, as they were on arrival
C22_Conflict(o) ==
  \/ C12_WellFormed(o) /\ o.hadItem /\ o.hadReport
  \/ /\ o.kind = "banUser" /\ C16_IsModerator(o)
     /\ o.target \in DOMAIN users /\ o.targetBanned
  \/ /\ o.kind = "unbanUser" /\ C16_IsModerator(o)
     /\ o.target \in DOMAIN users /\ ~o.targetBanned

C22_Invalid(o) ==
  \/ o.kind = "submitReport" /\ ~C12_WellFormed(o)
  \/ /\ o.kind \in {"bulkDeletePosts", "bulkDeleteComments"}
     /\ C16_IsModerator(o) /\ o.ids = {}

C22_NotFound(o) ==
  \/ C12_WellFormed(o) /\ ~o.hadItem
  \/ /\ o.kind \in {"banUser", "unbanUser", "deleteUserContent"}
     /\ C16_IsModerator(o) /\ o.target \notin DOMAIN users

C22_Forbidden(o) == o.kind # "submitReport" /\ ~C16_IsModerator(o)

\* C22: a request refused as a conflict (duplicate report, ban of a banned
\* user, unban of a user who is not banned) never carries the status of a
\* request refused as invalid, as not found or as forbidden.
C22_DistinctStatuses ==
  \A i, j \in 1..Len(ops) :
    (/\ ops[i].pc = "done" /\ ops[j].pc = "done"
     /\ C22_Conflict(ops[i])
     /\ C22_Invalid(ops[j]) \/ C22_NotFound(ops[j]) \/ C22_Forbidden(ops[j]))
      => ops[i].status # ops[j].status

\* The table a bulk deletion works on, before and after the step
C23_Table(o) == IF o.kind = "bulkDeletePosts" THEN posts ELSE comments
C23_TableAfter(o) == IF o.kind = "bulkDeletePosts" THEN posts' ELSE comments'
C23_OtherUnchanged(o) ==
  IF o.kind = "bulkDeletePosts" THEN comments' = comments ELSE posts' = posts

C23_Entry(o) ==
  [id |-> Len(modLogs) + 1, moderator_id |-> o.caller,
   action |-> IF o.kind = "bulkDeletePosts" THEN "bulk_delete_posts"
                                            ELSE "bulk_delete_comments",
   target_type |-> IF o.kind = "bulkDeletePosts" THEN "post" ELSE "comment",
   target_id |-> 0]

C23_BulkStep ==
  \A i \in 1..Len(ops') :
    (/\ ops'[i].kind \in {"bulkDeletePosts", "bulkDeleteComments"}
     /\ C13_Moved(i)
     /\ C16_IsModerator(ops'[i])) =>
      LET o == ops'[i]
          T == C23_Table(o)
          TA == C23_TableAfter(o)
      IN
        /\ C23_OtherUnchanged(o)
        /\ (i > Len(ops)) =>
             /\ TA = T /\ modLogs' = modLogs
             /\ IF o.ids = {} THEN o.pc = "done" /\ o.status = 400
                ELSE IF o.ids \cap DOMAIN T = {} THEN o.pc = "done" /\ o.status = 404
                ELSE o.pc = "mutate"
        /\ (i <= Len(ops) /\ ops[i].pc = "mutate") =>
             /\ modLogs' = modLogs
             /\ IF o.mutated
                  THEN /\ o.pc = "log"
                       /\ DOMAIN TA = DOMAIN T \ o.ids
                       /\ \A x \in DOMAIN TA : TA[x] = T[x]
                       /\ Cardinality(o.found) = Cardinality(DOMAIN T \ DOMAIN TA)
                  ELSE /\ o.pc = "done" /\ o.status = 500
                       /\ TA = T
        /\ (i <= Len(ops) /\ ops[i].pc = "log") =>
             /\ TA = T
             /\ o.pc = "done" /\ o.status = 200
             /\ IF o.logFailed THEN modLogs' = modLogs
                               ELSE modLogs' = Append(modLogs, C23_Entry(o))

C24_Table(o) == IF o.kind = "deletePost" THEN posts ELSE comments
C24_TableAfter(o) == IF o.kind = "deletePost" THEN posts' ELSE comments'

C24_DeleteStep ==
  \A i \in 1..Len(ops') :
    (/\ ops'[i].kind \in {"deletePost", "deleteComment"}
     /\ C13_Moved(i)
     /\ C16_IsModerator(ops'[i])) =>
      LET o == ops'[i]
          T == C24_Table(o)
          TA == C24_TableAfter(o)
      IN
        /\ IF o.kind = "deletePost" THEN comments' = comments ELSE posts' = posts
        /\ (i > Len(ops)) =>
             /\ TA = T /\ modLogs' = modLogs
             /\ IF o.target \in DOMAIN T THEN o.pc = "mutate"
                                         ELSE o.pc = "done" /\ o.status = 404
        /\ (i <= Len(ops) /\ ops[i].pc = "mutate") =>
             /\ modLogs' = modLogs
             /\ IF o.mutated
                  THEN /\ o.pc = "log"
                       /\ DOMAIN TA = DOMAIN T \ {o.target}
                       /\ \A x \in DOMAIN TA : TA[x] = T[x]
                  ELSE /\ o.pc = "done" /\ o.status = 500
                       /\ TA = T
        /\ (i <= Len(ops) /\ ops[i].pc = "log") =>
             /\ TA = T
             /\ o.pc = "done" /\ o.status = 200

\* C24: deletePost / deleteComment on an id that exists removes that row,
\* and only that row, and answers 200 (unless the store rejects the DELETE);
\* on an absent id it answers 404, leaves every post and comment as it was
\* and appends no audit entry.
C24_DeleteItem == [][C24_DeleteStep]_vars

\* A post was deleted with success while the other post stayed, and the
\* deletion of an absent comment was refused
C24_Witness ==
  \E i, j \in 1..Len(ops) :
    /\ ops[i].kind = "deletePost" /\ ops[i].status = 200
    /\ ops[i].target \notin DOMAIN posts /\ DOMAIN posts # {}
    /\ ops[j].kind = "deleteComment" /\ ops[j].status = 404 /\ ops[j].logId = 0
    /\ DOMAIN comments # {}

C25_ContentStep ==
  \A i \in 1..Len(ops') :
    (/\ ops'[i].kind = "deleteUserContent"
     /\ C13_Moved(i)
     /\ C16_IsModerator(ops'[i])) =>
      LET o == ops'[i] IN
        /\ users' = users
        /\ (i > Len(ops)) =>
             /\ posts' = posts /\ comments' = comments
             /\ IF o.target \in DOMAIN users THEN o.pc = "countPosts"
                                             ELSE o.pc = "done" /\ o.status = 404
        /\ (i <= Len(ops) /\ ops[i].pc = "deletePosts" /\ o.pc # "done") =>
             /\ DOMAIN posts' = {x \in DOMAIN posts : PostAuthor(x) # o.target}
             /\ \A x \in DOMAIN posts' : posts'[x] = posts[x]
             /\ o.postCount = Cardinality(DOMAIN posts \ DOMAIN posts')
             /\ comments' = comments
        /\ (i <= Len(ops) /\ ops[i].pc = "deleteComments" /\ o.pc # "done") =>
             /\ DOMAIN comments' = {x \in DOMAIN comments : CommentAuthor(x) # o.target}
             /\ \A x \in DOMAIN comments' : comments'[x] = comments[x]
             /\ o.commentCount = Cardinality(DOMAIN comments \ DOMAIN comments')
             /\ posts' = posts
        /\ (i <= Len(ops) /\ o.pc = "done" /\ o.status = 200) =>
             /\ posts' = posts /\ comments' = comments
             /\ \A x \in DOMAIN posts' : PostAuthor(x) # o.target
             /\ \A x \in DOMAIN comments' : CommentAuthor(x) # o.target

\* C25: served on its own, deleteUserContent on an existing user removes
\* exactly the posts and the comments written by that user, so that none is
\* left when it answers 200; deletedPosts and deletedComments (the counts
\* taken before the deletion) are the numbers of rows removed; no step of it
\* changes a user row.  For an unknown username it answers 404 and deletes
\* nothing.
C25_DeleteUserContent == [][C25_ContentStep]_vars

\* User 1's post and comment were deleted and counted, another user's post
\* and the user row are still there; an unknown username was refused
C25_Witness ==
  \E i, j \in 1..Len(ops) :
    /\ ops[i].kind = "deleteUserContent" /\ ops[i].status = 200
    /\ ops[i].postCount = 1 /\ ops[i].commentCount = 1
    /\ DOMAIN posts # {}
    /\ ops[i].target \in DOMAIN users
    /\ ops[j].kind = "deleteUserContent" /\ ops[j].status = 404

\* ---- the role gate ----

\* The routes mounted behind requireModerator
C26_Routes ==
  {"getStats", "listPosts", "listComments", "listUsers", "getUser", "listReports",
   "deletePost", "deleteComment", "bulkDeletePosts", "bulkDeleteComments",
   "banUser", "unbanUser", "deleteUserContent", "dismissReport"}

\* The step is the arrival of a request to a moderation route
C26_Arrival == Len(ops') = Len(ops) + 1 /\ ops'[Len(ops')].kind \in C26_Routes

C26_ForbiddenStep ==
  (/\ C26_Arrival
   /\ ops'[Len(ops')].caller \in DOMAIN users
   /\ users[ops'[Len(ops')].caller].role = "user")
  => /\ ops'[Len(ops')].pc = "done"
     /\ ops'[Len(ops')].status = 403
     /\ ops'[Len(ops')].mutated = FALSE
     /\ ops'[Len(ops')].logId = 0
     /\ UNCHANGED <<posts, comments, votes, voteSeq, users, reports, reportSeq, modLogs,
                    content, seqs>>
     /\ \A i \in 1..Len(ops) : ops'[i] = ops[i]

\* C26: a request to any moderation route (listing, stats, delete, bulk
\* delete, ban, unban, deleteUserContent, dismissReport) whose authenticated
\* caller has the stored role 'user' is answered 403 at once, whether or not
\* its target exists; the step changes no table and appends no audit entry.
C26_UserRoleForbidden == [][C26_ForbiddenStep]_vars

\* User 1 (role 'user') was refused a listing and the deletion of a post that
\* exists; the post is still there and the audit log is empty
C26_Witness ==
  /\ Len(ops) = 2
  /\ users[1].role = "user"
  /\ ops[1].kind = "listPosts" /\ ops[1].caller = 1 /\ ops[1].status = 403
  /\ ops[2].kind = "deletePost" /\ ops[2].caller = 1 /\ ops[2].status = 403
  /\ ops[2].target \in DOMAIN posts
  /\ modLogs = <<>>

C27_GateStep ==
  (C26_Arrival /\ ops'[Len(ops')].caller \in DOMAIN users)
  => (ops'[Len(ops')].status # 403
        <=> users[ops'[Len(ops')].caller].role \in {"moderator", "admin"})

\* C27: the gate lets a request to a moderation route through exactly when
\* the role stored for its caller at the time of that request is moderator or
\* admin, whatever the role was at an earlier request of the same caller.
C27_GateReadsStoredRole == [][C27_GateStep]_vars

\* The same caller was refused, then promoted by the setup script, then let
\* through
C27_Witness ==
  /\ Len(ops) = 2
  /\ ops[1].caller = ops[2].caller
  /\ ops[1].kind = ops[2].kind /\ ops[1].kind = "deletePost"
  /\ ops[1].status = 403
  /\ ops[2].status = 200
  /\ users[ops[2].caller].role = "admin"

\* ---- who writes the users table ----

\* The step carries out the UPDATE of a ban (flag TRUE) or unban (flag FALSE) of user u
C28_BanUpdate(u, flag) ==
  \E i \in 1..Len(ops) :
    /\ ops[i].kind = (IF flag THEN "banUser" ELSE "unbanUser")
    /\ ops[i].target = u
    /\ ops[i].pc # "done"
    /\ ~ops[i].mutated /\ ops'[i].mutated

C28_UsersStep ==
  \A u \in DOMAIN users :
    /\ u \in DOMAIN users'
    /\ users'[u].role = users[u].role
    /\ users'[u].is_banned # users[u].is_banned => C28_BanUpdate(u, users'[u].is_banned)

\* C28: no step of a request handler (castOrUpdateVote, getVoteStatus,
\* submitReport, post and comment creation, register, login, the deletes,
\* deleteUserContent, dismissReport, ban, unban) changes the role of a user,
\* and the is_banned flag of a user changes only in the UPDATE step of a
\* banUser or unbanUser request naming that user.
C28_UsersFrame == [][C28_UsersStep]_vars

\* A ban succeeded and a comment was then created; the roles are those of
\* the initial store
C28_Witness ==
  /\ \E i \in 1..Len(ops) : ops[i].kind = "banUser" /\ ops[i].status = 200
                            /\ users[ops[i].target].is_banned
  /\ \E i \in 1..Len(reqs) : reqs[i].kind = "createComment" /\ reqs[i].status = 201
  /\ \A u \in DOMAIN users : users[u].role = (IF u = 3 THEN "moderator" ELSE "user")

\* ---- what a ban blocks ----

\* C29: a post or comment creation request whose caller was banned when it
\* arrived inserts no row and is answered 403.
C29_BannedCannotCreate ==
  \A i \in 1..Len(reqs) :
    (reqs[i].kind \in {"createPost", "createComment"} /\ reqs[i].callerBanned)
    => /\ reqs[i].newId = 0
       /\ reqs[i].pc = "done" => reqs[i].status = 403

\* The answer to a vote that arrives in the current store, and the answer to
\* a report by what the store held when it arrived; neither takes the
\* caller's is_banned flag
C30_VoteStatus(c) ==
  IF c.itemId = 0 \/ c.itemType \notin {"post", "comment"} \/ c.voteType \notin {"up", "down"}
  THEN 400
  ELSE IF c.itemId \notin ExistingIds(c.itemType) THEN 404
  ELSE 200

C30_ReportStatus(o) ==
  IF ~C12_WellFormed(o) THEN 400
  ELSE IF ~o.hadItem THEN 404
  ELSE IF o.hadReport THEN 409
  ELSE 201

C30_Answered(old, new, i) == new[i].pc = "done" /\ (i > Len(old) \/ old[i].pc # "done")

C30_Step ==
  /\ \A i \in 1..Len(calls') :
       C30_Answered(calls, calls', i) =>
         /\ calls'[i].status = C30_VoteStatus(calls'[i])
         /\ calls'[i].status = 200 =>
              (C6_ResponseCase(calls'[i]) /\ C6_StoreCase(calls[i])')
         /\ users' = users /\ reports' = reports
  /\ \A i \in 1..Len(ops') :
       (ops'[i].kind = "submitReport" /\ C30_Answered(ops, ops', i)) =>
         /\ ops'[i].status = C30_ReportStatus(ops'[i])
         /\ IF ops'[i].status = 201 THEN C13_Created(ops'[i]) ELSE reports' = reports
         /\ users' = users /\ votes' = votes /\ posts' = posts /\ comments' = comments

\* C30: served on its own, castOrUpdateVote and submitReport are answered,
\* and change the store, as a function of the request and of the posts,
\* comments, votes and reports tables alone: the same for a caller whose
\* is_banned flag is set as for one whose flag is clear.
C30_BanDoesNotBlock == [][C30_Step]_vars

\* User 2, banned throughout, cast a vote answered 200 and submitted a report
\* answered 201
C30_Witness ==
  /\ users[2].is_banned
  /\ \E i \in 1..Len(calls) : calls[i].user = 2 /\ calls[i].status = 200
  /\ \E i \in 1..Len(ops) :
       /\ ops[i].kind = "submitReport" /\ ops[i].caller = 2
       /\ ops[i].callerBanned /\ ops[i].status = 201

\* ---- votes and deletions ----

\* C31: every row of the votes table names a post or a comment that exists.
C31_NoDanglingVote ==
  \A v \in votes :
    \/ v.item_type = "post" /\ v.item_id \in DOMAIN posts
    \/ v.item_type = "comment" /\ v.item_id \in DOMAIN comments

\* ---- the vote-status query ----

C32_Requested(r, t, id) ==
  /\ t \in {"post", "comment"} /\ id # 0
  /\ \E it \in r.items : it.type = t /\ it.id = id

C32_StatusStep ==
  \A i \in 1..Len(reqs') :
    (reqs'[i].kind = "getVoteStatus" /\ (i > Len(reqs) \/ reqs'[i] # reqs[i])) =>
      LET r == reqs'[i] IN
        /\ UNCHANGED <<posts, comments, votes, voteSeq, users, reports, reportSeq, modLogs,
                       content, seqs>>
        /\ (r.valid /\ r.items # {} /\ r.caller \in DOMAIN users) => r.status \in {0, 200}
        /\ (r.pc = "done" /\ r.status = 200) =>
             /\ \A e \in r.result :
                  /\ C32_Requested(r, e.item_type, e.item_id)
                  /\ \E v \in votes : /\ v.user_id = r.caller
                                      /\ v.item_type = e.item_type /\ v.item_id = e.item_id
                                      /\ v.vote_type = e.vote_type
             /\ \A v \in votes :
                  (v.user_id = r.caller /\ C32_Requested(r, v.item_type, v.item_id))
                  => \E e \in r.result : /\ e.item_type = v.item_type
                                         /\ e.item_id = v.item_id
                                         /\ e.vote_type = v.vote_type

\* C32: no step of getVoteStatus changes a table; answered 200, it returns
\* one entry for each requested reference with type post or comment and a
\* non-empty id on which the caller holds a vote row, carrying the caller's
\* vote type, and nothing else; entries with another type or no id are left
\* out and do not make the call fail.
C32_GetVoteStatus == [][C32_StatusStep]_vars

\* User 1 asked about post 1 (own vote), comment 1 (only user 2 voted), a
\* missing id, a bad type and an unknown post, and got the one entry for post 1
C32_Witness ==
  \E i \in 1..Len(reqs) :
    /\ reqs[i].kind = "getVoteStatus" /\ reqs[i].caller = 1 /\ reqs[i].status = 200
    /\ Cardinality(reqs[i].items) = 5
    /\ Cardinality(reqs[i].result) = 1
    /\ \E e \in reqs[i].result : e.item_type = "post" /\ e.item_id = 1
    /\ \E v \in votes : v.user_id = 2 /\ v.item_type = "comment" /\ v.item_id = 1

\* ---- the statistics ----

C33_SnapshotStep ==
  \A i \in 1..Len(ops) :
    (ops[i].kind = "getStats" /\ ops[i].pc # "done"
       /\ ops'[i].pc = "done" /\ ops'[i].status = 200)
    => \E k \in ops[i].since..Len(timeline) : timeline[k] = ops'[i].stats

\* C33: the six counts a /stats request answers with are the six counts of
\* one store state that existed between its arrival and its answer.
C33_StatsSnapshot == [][C33_SnapshotStep]_vars

\* ---- pagination ----

\* A maximum for the limit of a listing: five default pages
C34_MaxLimit == 5 * DefaultLimit

\* C34: a listing answers with a page of at least 1, a limit between 1 and
\* the maximum, an offset of (page - 1) * limit that is not negative, and
\* hasMore exactly when it returned limit rows.
C34_Pagination ==
  listing.pc = "done" =>
    /\ listing.page >= 1
    /\ listing.limit >= 1 /\ listing.limit <= C34_MaxLimit
    /\ listing.offset = (listing.page - 1) * listing.limit
    /\ listing.offset >= 0
    /\ listing.hasMore <=> (listing.returned = listing.limit)

\* ---- the cleanup job ----

\* C35: when a run of the cleanup job has ended, every post created more
\* than 48 hours before the run is gone and every post created less than 48
\* hours before the run is still stored.
C35_CleanupByAge ==
  cleanup.pc = "done" =>
    \A x \in DOMAIN cleanup.created_at :
      /\ cleanup.created_at[x] + 48 < cleanup.now => x \notin DOMAIN posts
      /\ cleanup.created_at[x] + 48 > cleanup.now => x \in DOMAIN posts

\* ---- concurrent duplicates ----

C36_Same(a, b) ==
  /\ a.kind = "submitReport" /\ b.kind = "submitReport"
  /\ a.caller = b.caller /\ a.target = b.target /\ a.itemType = b.itemType

\* C36: of two submitReport requests of one user for one item, neither of
\* which found a report on arrival, both answered: one was answered 201, the
\* other 409, and the store holds exactly one report of that item by that
\* user.
C36_OneCreatedOtherConflict ==
  \A i, j \in 1..Len(ops) :
    (/\ i < j /\ C36_Same(ops[i], ops[j])
     /\ ops[i].hadItem /\ ops[j].hadItem /\ ~ops[i].hadReport /\ ~ops[j].hadReport
     /\ C12_WellFormed(ops[i]) /\ C12_WellFormed(ops[j])
     /\ ops[i].pc = "done" /\ ops[j].pc = "done")
    => /\ {ops[i].status, ops[j].status} = {201, 409}
       /\ Cardinality({r \in reports : /\ r.reporter_id = ops[i].caller
                                       /\ r.reported_item_id = ops[i].target
                                       /\ r.reported_item_type = ops[i].itemType}) = 1

C37_Same(a, b, kind) == a.kind = kind /\ b.kind = kind /\ a.target = b.target

\* Requests that could put the user back into the state the pair found
C37_Undone(kind, target) ==
  \E k \in 1..Len(ops) :
    /\ ops[k].target = target
    /\ ops[k].kind = (IF kind = "banUser" THEN "unbanUser" ELSE "banUser")

\* C37: of two banUser (two unbanUser) requests for one user that both found
\* the user not banned (banned) on arrival, with no request of the opposite
\* kind for that user, at most one is answered 200 and at most one appended
\* an audit entry.
C37_AtMostOneBan ==
  \A i, j \in 1..Len(ops) : \A kind \in {"banUser", "unbanUser"} :
    (/\ i < j /\ C37_Same(ops[i], ops[j], kind)
     /\ ops[i].targetBanned = (kind = "unbanUser")
     /\ ops[j].targetBanned = (kind = "unbanUser")
     /\ ~C37_Undone(kind, ops[i].target)
     /\ ops[i].pc = "done" /\ ops[j].pc = "done"
     /\ ~ops[i].logFailed /\ ~ops[j].logFailed)
    => /\ ~(ops[i].status = 200 /\ ops[j].status = 200)
       /\ ~(ops[i].logId # 0 /\ ops[j].logId # 0)

C38_Deletes(action, target) ==
  {k \in 1..Len(modLogs) : modLogs[k].action = action /\ modLogs[k].target_id = target}

\* C38: of two deletePost (two deleteComment) requests for one row that both
\* found the row on arrival and are both answered, exactly one is answered
\* 200 and the other 404, and the audit log holds exactly one deletion entry
\* for the row.
C38_OneDeletionEntry ==
  \A i, j \in 1..Len(ops) : \A kind \in {"deletePost", "deleteComment"} :
    (/\ i < j /\ ops[i].kind = kind /\ ops[j].kind = kind
     /\ ops[i].target = ops[j].target
     /\ ops[i].found # {} /\ ops[j].found # {}
     /\ ops[i].pc = "done" /\ ops[j].pc = "done"
     /\ ops[i].status # 500 /\ ops[j].status # 500
     /\ ~ops[i].logFailed /\ ~ops[j].logFailed)
    => /\ {ops[i].status, ops[j].status} = {200, 404}
       /\ Cardinality(C38_Deletes(IF kind = "deletePost" THEN "delete_post"
                                  ELSE "delete_comment", ops[i].target)) = 1

\* ---- vote requests next to deletions of the voted items ----

MaxRaceOps == 2

RaceVoteRequests ==
  {Request(1, 1, "post", "down"), Request(2, 1, "post", "up"),
   Request(2, 1, "comment", "down"), Request(1, 9, "post", "up"),
   Request(1, 1, "post", "sideways")}

RaceDeleteRequests ==
  {ModReq("deletePost", Moderator, 1), ModReq("deleteComment", Moderator, 1)}

RaceReady == Len(calls) + Len(ops) < MaxRaceOps

\* Vote handlers and deletion handlers interleave
RaceNext ==
  \/ \E req \in RaceVoteRequests : RaceReady /\ Arrive(req)
  \/ \E req \in RaceDeleteRequests : RaceReady /\ ModArrive(req)
  \/ \E i \in 1..Len(calls) : Lookup(i)
  \/ \E i \in 1..Len(calls) : Write(i)
  \/ \E i \in 1..Len(calls) : Count(i)
  \/ \E i \in 1..Len(calls) : ReadVotes(i)
  \/ \E i \in 1..Len(calls) : ReadVote(i)
  \/ \E i \in 1..Len(ops) : DeletePostDelete(i)
  \/ \E i \in 1..Len(ops) : DeleteCommentDelete(i)
  \/ \E i \in 1..Len(ops) : LogModerationAction(i)

RaceSpec == (ModInit \/ ModWarmInit) /\ [][RaceNext]_vars

\* ---- votes next to deletions ----

C39_Errors == {400, 404, 500}

\* The vote the store holds for a call's user and item: "none" if it holds none
C39_VoteHeld(rows, c) ==
  LET mine == {r \in rows : /\ r.user_id = c.user /\ r.item_id = c.itemId
                            /\ r.item_type = c.itemType}
  IN IF mine = {} THEN "none" ELSE (CHOOSE r \in mine : TRUE).vote_type

\* No other vote request of the same user for the same item
C39_Alone(i) ==
  \A j \in 1..Len(calls) \ {i} :
    ~(/\ calls[j].user = calls[i].user /\ calls[j].itemId = calls[i].itemId
      /\ calls[j].itemType = calls[i].itemType)

\* C39: when a vote request is answered 400, 404 or 500, the store holds for
\* its user and item the vote it held when the request arrived (no other
\* request of that user for that item having been made); a request rejected
\* on arrival changes nothing.
C39_ErrorStep ==
  /\ Len(calls') > Len(calls) => <<votes, posts, comments>>' = <<votes, posts, comments>>
  /\ \A i \in 1..Len(calls) :
       (/\ calls[i].pc # "done" /\ calls'[i].pc = "done"
        /\ calls'[i].status \in C39_Errors
        /\ C39_Alone(i))
       => C39_VoteHeld(votes', calls[i]) = calls[i].preVote

C39_ErrorLeavesStore == [][C39_ErrorStep]_vars

\* ---- /stats after deletions ----

\* Existing rows of a table that have a pending report
C40_Reported(table, itemType) ==
  {id \in DOMAIN table :
     \E r \in reports : /\ r.reported_item_type = itemType
                        /\ r.reported_item_id = id
                        /\ r.status = "pending"}

\* C40: the answer of a getStats request served alone, no request having
\* arrived since: reportedPosts (reportedComments) is the number of existing
\* posts (comments) with a pending report, and so at most totalPosts
\* (totalComments).
C40_ReportedExisting ==
  (/\ Len(ops) > 0
   /\ ops[Len(ops)].kind = "getStats"
   /\ ops[Len(ops)].pc = "done" /\ ops[Len(ops)].status = 200)
  => LET s == ops[Len(ops)].stats
     IN /\ s[3] = Cardinality(C40_Reported(posts, "post"))
        /\ s[4] = Cardinality(C40_Reported(comments, "comment"))
        /\ s[3] <= s[1]
        /\ s[4] <= s[2]

====
